---- MODULE Spec2Model ----
(***************************************************************************)
(* Facility ranking and enrichment pipeline of the SNF referral backend:   *)
(* performAnalysis (services/analyzeService.js), the geocoding fallback    *)
(* chain (utils/geocode.js), the place-id resolver and the review service  *)
(* with their two-layer caches.                                            *)
(*                                                                         *)
(* JavaScript values are records [t, v, s]: a type tag, the number (for    *)
(* t = "num") and the characters (for t = "str").  Objects are functions   *)
(* from property names to values; a property that is not in the domain     *)
(* reads as undefined.  Text is a sequence of one-character strings so     *)
(* that case conversion, trimming and padding are computed, not assumed.   *)
(***************************************************************************)
EXTENDS Integers, Sequences, FiniteSets, TLC

\* ------------------------------------------------------------------ values
JNum(n) == [t |-> "num", v |-> n, s |-> <<>>]
JStr(x) == [t |-> "str", v |-> 0, s |-> x]
JNull == [t |-> "null", v |-> 0, s |-> <<>>]
JUndef == [t |-> "undef", v |-> 0, s |-> <<>>]
JNaN == [t |-> "nan", v |-> 0, s |-> <<>>]

\* obj.key / obj[key]: a missing property reads as undefined
Get(obj, k) == IF k \in DOMAIN obj THEN obj[k] ELSE JUndef

\* {...a, ...b}: the properties of b replace those of a
Spread(a, b) == [k \in (DOMAIN a) \cup (DOMAIN b) |-> IF k \in DOMAIN b THEN b[k] ELSE a[k]]

\* truthiness as used by ||, ! and if (...)
Truthy(x) ==
  CASE x.t = "num" -> x.v # 0
    [] x.t = "str" -> x.s # <<>>
    [] OTHER -> FALSE

\* a || b
Or(a, b) == IF Truthy(a) THEN a ELSE b

\* x == null (true of null and undefined), the test behind ??
IsNullish(x) == x.t \in {"null", "undef"}

\* a ?? b
Coalesce(a, b) == IF IsNullish(a) THEN b ELSE a

\* the global isNaN(x): x is coerced with Number(x) first, so null counts as 0
isNaN(x) ==
  CASE x.t = "num" -> FALSE
    [] x.t = "null" -> FALSE
    [] x.t = "str" -> x.s # <<>> /\ \E i \in 1..Len(x.s) : x.s[i] \notin {"0", "1", "2", "3", "4", "5", "6", "7", "8", "9"}
    [] OTHER -> TRUE

\* Number.isNaN(x): no coercion
NumberIsNaN(x) == x.t = "nan"

\* parseFloat(x) for the values a coordinate property holds: the argument is
\* converted to text first, so null and undefined give NaN
parseFloat(x) == IF x.t = "num" THEN x ELSE JNaN

\* a <= b on numbers; any comparison with NaN is false
LessEq(a, b) == a.t = "num" /\ b.t = "num" /\ a.v <= b.v

\* ------------------------------------------------------------------- text
\* A unit of text is a character or a word; a word is listed with its lower-
\* and upper-case forms, every other unit has no case.
Words == {
  [lower |-> "a", upper |-> "A", mixed |-> "a"],
  [lower |-> "b", upper |-> "B", mixed |-> "b"],
  [lower |-> "c", upper |-> "C", mixed |-> "c"],
  [lower |-> "distance", upper |-> "DISTANCE", mixed |-> "Distance"],
  [lower |-> "composite", upper |-> "COMPOSITE", mixed |-> "Composite"],
  [lower |-> "rating", upper |-> "RATING", mixed |-> "Rating"],
  [lower |-> "name", upper |-> "NAME", mixed |-> "Name"],
  [lower |-> "asc", upper |-> "ASC", mixed |-> "Asc"],
  [lower |-> "desc", upper |-> "DESC", mixed |-> "Desc"],
  [lower |-> "best", upper |-> "BEST", mixed |-> "Best"],
  [lower |-> "main", upper |-> "MAIN", mixed |-> "Main"],
  [lower |-> "gary", upper |-> "GARY", mixed |-> "Gary"],
  [lower |-> "in", upper |-> "IN", mixed |-> "In"],
  [lower |-> "sr", upper |-> "SR", mixed |-> "Sr"],
  [lower |-> "hwy", upper |-> "HWY", mixed |-> "Hwy"],
  [lower |-> "mt", upper |-> "MT", mixed |-> "Mt"],
  [lower |-> "us", upper |-> "US", mixed |-> "Us"],
  [lower |-> "po box", upper |-> "PO BOX", mixed |-> "Po Box"],
  [lower |-> "state road", upper |-> "STATE ROAD", mixed |-> "State Road"],
  [lower |-> "highway", upper |-> "HIGHWAY", mixed |-> "Highway"],
  [lower |-> "mount", upper |-> "MOUNT", mixed |-> "Mount"] }

HasCase(c) == \E w \in Words : c \in {w.lower, w.upper, w.mixed}
WordOf(c) == CHOOSE w \in Words : c \in {w.lower, w.upper, w.mixed}

toUpperCaseCh(c) == IF HasCase(c) THEN WordOf(c).upper ELSE c
toLowerCaseCh(c) == IF HasCase(c) THEN WordOf(c).lower ELSE c

toUpperCase(str) == [i \in 1..Len(str) |-> toUpperCaseCh(str[i])]
toLowerCase(str) == [i \in 1..Len(str) |-> toLowerCaseCh(str[i])]

RECURSIVE trimStart(_)
trimStart(str) == IF str # <<>> /\ Head(str) = " " THEN trimStart(Tail(str)) ELSE str

RECURSIVE trimEnd(_)
trimEnd(str) ==
  IF str # <<>> /\ str[Len(str)] = " " THEN trimEnd(SubSeq(str, 1, Len(str) - 1)) ELSE str

trim(str) == trimEnd(trimStart(str))

RECURSIVE padStart(_, _, _)
padStart(str, n, c) == IF Len(str) >= n THEN str ELSE padStart(<<c>> \o str, n, c)

DigitChars == <<"0", "1", "2", "3", "4", "5", "6", "7", "8", "9">>

RECURSIVE DigitsOf(_)
DigitsOf(n) == IF n < 10 THEN <<DigitChars[n + 1]>> ELSE DigitsOf(n \div 10) \o <<DigitChars[(n % 10) + 1]>>

\* String(x) for the identifiers the code pads: text stays, a number is printed
String(x) == IF x.t = "num" THEN DigitsOf(x.v) ELSE x.s

\* a.localeCompare(b) on lower-cased text: the sign of the collation order,
\* blank before digits before letters, a proper prefix before its extensions
CollationOrder == <<" ", "0", "1", "2", "3", "4", "5", "6", "7", "8", "9", "a", "b", "c">>

CollationRank(c) ==
  IF \E i \in 1..Len(CollationOrder) : CollationOrder[i] = c
  THEN CHOOSE i \in 1..Len(CollationOrder) : CollationOrder[i] = c
  ELSE Len(CollationOrder) + 1

RECURSIVE localeCompare(_, _)
localeCompare(a, b) ==
  IF a = <<>> /\ b = <<>> THEN 0
  ELSE IF a = <<>> THEN -1
  ELSE IF b = <<>> THEN 1
  ELSE IF CollationRank(Head(a)) < CollationRank(Head(b)) THEN -1
  ELSE IF CollationRank(Head(a)) > CollationRank(Head(b)) THEN 1
  ELSE localeCompare(Tail(a), Tail(b))

\* ---------------------------------------------------------------- ranking
DEFAULT_RADIUS_MILES == 50
DEFAULT_LIMIT == 5

\* const { mode = "closest", radiusMiles = 50, limit = 5, sortBy, order } = options:
\* a default replaces undefined only
OptionOr(options, k, dflt) == IF Get(options, k).t = "undef" THEN dflt ELSE Get(options, k)

\* Great-circle distance in miles.  Coordinates are in tenths of a degree and
\* every modelled point lies on one meridian or one parallel near the equator,
\* where a degree is 69 miles.  Arithmetic on null counts it as 0; undefined
\* and NaN give NaN.
MilesPerDegree == 69

ToNumber(x) == IF x.t = "num" THEN x ELSE IF x.t = "null" THEN JNum(0) ELSE JNaN

Abs(n) == IF n < 0 THEN -n ELSE n

haversine(a, b) ==
  LET la == ToNumber(a.lat)
      lo == ToNumber(a.lon)
      lb == ToNumber(b.lat)
      ob == ToNumber(b.lon)
  IN IF la.t = "num" /\ lo.t = "num" /\ lb.t = "num" /\ ob.t = "num"
     THEN JNum((MilesPerDegree * (Abs(la.v - lb.v) + Abs(lo.v - ob.v))) \div 10)
     ELSE JNaN

\* the same without the radius filter
WithDistanceNoRadius(facilities, hLat, hLon, radiusMiles) ==
  LET located == SelectSeq(facilities, LAMBDA f : ~isNaN(Get(f, "latitude")) /\ ~isNaN(Get(f, "longitude")))
  IN [i \in 1..Len(located) |->
        Spread(located[i],
               "distance" :> haversine([lat |-> hLat, lon |-> hLon],
                                       [lat |-> Get(located[i], "latitude"),
                                        lon |-> Get(located[i], "longitude")]))]

\* snfs.filter(has coordinates).map(add distance).filter(distance <= radiusMiles)
WithDistance(facilities, hLat, hLon, radiusMiles) ==
  LET located == SelectSeq(facilities, LAMBDA f : ~isNaN(Get(f, "latitude")) /\ ~isNaN(Get(f, "longitude")))
      measured == [i \in 1..Len(located) |->
                     Spread(located[i],
                            "distance" :> haversine([lat |-> hLat, lon |-> hLon],
                                                    [lat |-> Get(located[i], "latitude"),
                                                     lon |-> Get(located[i], "longitude")]))]
  IN SelectSeq(measured, LAMBDA f : LessEq(f["distance"], radiusMiles))

\* a resolution in which the mode decides before sortBy is looked at
ResolvedSortByModeFirst(options) ==
  LET given == toLowerCase(Or(Get(options, "sortBy"), JStr(<<>>)).s)
  IN IF OptionOr(options, "mode", JStr(<<"closest">>)) = JStr(<<"best">>) THEN <<"composite">>
     ELSE IF given # <<>> THEN given
     ELSE <<"distance">>

ResolvedSortBy(options) ==
  LET given == toLowerCase(Or(Get(options, "sortBy"), JStr(<<>>)).s)
  IN IF given # <<>> THEN given
     ELSE IF OptionOr(options, "mode", JStr(<<"closest">>)) = JStr(<<"best">>) THEN <<"composite">>
     ELSE <<"distance">>

ResolvedOrder(options) ==
  LET given == toLowerCase(Or(Get(options, "order"), JStr(<<>>)).s)
      defaultOrder == IF ResolvedSortBy(options) = <<"distance">> THEN <<"asc">> ELSE <<"desc">>
  IN IF given = <<"asc">> \/ given = <<"desc">> THEN given ELSE defaultOrder

valueFor(f, by) ==
  CASE by \in {<<"rating">>, <<"overall_rating">>} ->
         Coalesce(Coalesce(Get(f, "overall_rating"), Get(f, "Overall Rating")), JNull)
    [] by \in {<<"composite">>, <<"composite_score">>} -> Coalesce(Get(f, "Composite_Score"), JNull)
    [] by = <<"distance">> -> Coalesce(Get(f, "distance"), JNull)
    [] by = <<"name">> -> JStr(toLowerCase(Or(Get(f, "facility_name"), JStr(<<>>)).s))
    [] OTHER -> JNull

\* a comparator that counts a missing value as 0 instead of putting it last
compareNullAsZero(a, b, by, ord) ==
  LET valA == valueFor(a, by)
      valB == valueFor(b, by)
      numA == IF IsNullish(valA) THEN 0 ELSE valA.v
      numB == IF IsNullish(valB) THEN 0 ELSE valB.v
  IN IF valA.t = "str" \/ valB.t = "str"
     THEN (IF ord = <<"asc">> THEN localeCompare(valA.s, valB.s) ELSE localeCompare(valB.s, valA.s))
     ELSE (IF ord = <<"asc">> THEN numA - numB ELSE numB - numA)

\* the comparator handed to Array.sort: negative when a goes first
compareFacilities(a, b, by, ord) ==
  LET valA == valueFor(a, by)
      valB == valueFor(b, by)
      isAscending == ord = <<"asc">>
  IN IF IsNullish(valA) /\ IsNullish(valB) THEN 0
     ELSE IF IsNullish(valA) THEN 1
     ELSE IF IsNullish(valB) THEN -1
     ELSE IF valA.t = "str" \/ valB.t = "str"
          THEN (IF isAscending THEN localeCompare(valA.s, valB.s) ELSE localeCompare(valB.s, valA.s))
          ELSE (IF isAscending THEN valA.v - valB.v ELSE valB.v - valA.v)

\* Array.prototype.sort is stable: an element goes behind every element that
\* does not compare greater than it
RECURSIVE insertStable(_, _, _, _)
insertStable(x, sorted, by, ord) ==
  IF sorted = <<>> THEN <<x>>
  ELSE IF compareFacilities(Head(sorted), x, by, ord) > 0 THEN <<x>> \o sorted
  ELSE <<Head(sorted)>> \o insertStable(x, Tail(sorted), by, ord)

RECURSIVE sortFacilities(_, _, _)
sortFacilities(list, by, ord) ==
  IF list = <<>> THEN <<>>
  ELSE insertStable(list[Len(list)], sortFacilities(SubSeq(list, 1, Len(list) - 1), by, ord), by, ord)

\* list.slice(0, end): a negative end counts from the back
sliceFromStart(list, end) ==
  LET stop == IF end < 0 THEN (IF Len(list) + end < 0 THEN 0 ELSE Len(list) + end)
              ELSE (IF end > Len(list) THEN Len(list) ELSE end)
  IN SubSeq(list, 1, stop)

\* every ranked facility, whatever the limit
TopFacilitiesUnlimited(ranked, options) == ranked

\* ranked.slice(0, limit || DEFAULT_LIMIT)
TopFacilities(ranked, options) ==
  sliceFromStart(ranked, Or(OptionOr(options, "limit", JNum(DEFAULT_LIMIT)), JNum(DEFAULT_LIMIT)).v)

\* -------------------------------------------------------------- geocoding
\* the text of a property put into a template literal or joined
TextOf(x) == IF x.t = "str" THEN x.s ELSE <<>>

\* str.replace(/\s+/g, " ")
RECURSIVE collapseSpaces(_)
collapseSpaces(str) ==
  IF Len(str) < 2 THEN str
  ELSE IF str[1] = " " /\ str[2] = " " THEN collapseSpaces(Tail(str))
  ELSE <<Head(str)>> \o collapseSpaces(Tail(str))

\* [name, address, city, state, zip].join("|").toUpperCase().replace(/\s+/g, " ").trim()
normalizeKey(args) ==
  trim(collapseSpaces(toUpperCase(
    TextOf(args.name) \o <<"|">> \o TextOf(args.address) \o <<"|">> \o TextOf(args.city)
      \o <<"|">> \o TextOf(args.state) \o <<"|">> \o TextOf(args.zip))))

\* prisma.geocodeCache.findUnique and the projection of the row
getCachedCoordinates(cache, key) ==
  IF key = <<>> THEN JNull
  ELSE IF key \notin DOMAIN cache THEN JNull
  ELSE [lat |-> Coalesce(cache[key].lat, JNull),
        lon |-> Coalesce(cache[key].lon, JNull),
        provider |-> Coalesce(cache[key].provider, JNull)]

\* prisma.geocodeCache.upsert: the row of the key is created or replaced
saveCachedCoordinates(cache, key, payload) ==
  IF key = <<>> THEN cache
  ELSE [k \in (DOMAIN cache) \cup {key} |->
          IF k = key
          THEN [lat |-> Coalesce(payload.lat, JNull),
                lon |-> Coalesce(payload.lon, JNull),
                provider |-> Coalesce(payload.provider, JNull)]
          ELSE cache[k]]

\* .replace(/P ?O ?BOX.*$/i, ""): the text from the post-office box on is cut
RECURSIVE removePoBox(_)
removePoBox(str) ==
  IF str = <<>> THEN <<>>
  ELSE IF toUpperCaseCh(Head(str)) = "PO BOX" THEN <<>>
  ELSE <<Head(str)>> \o removePoBox(Tail(str))

cleanAddress(address) == trim(removePoBox(TextOf(Or(address, JStr(<<>>)))))

\* the four \b...\b/gi replacements: SR, Hwy, US, Mt in any case
expandAbbreviation(c) ==
  CASE toUpperCaseCh(c) = "SR" -> "State Road"
    [] toUpperCaseCh(c) = "HWY" -> "Highway"
    [] toUpperCaseCh(c) = "US" -> "US"
    [] toUpperCaseCh(c) = "MT" -> "Mount"
    [] OTHER -> c

sanitizeAddress(cleaned) == [i \in 1..Len(cleaned) |-> expandAbbreviation(cleaned[i])]

\* `${street}, ${city}, ${state} ${zip}`.replace(/\s+/g, " ").trim()
addressLine(street, args) ==
  trim(collapseSpaces(street \o <<",", " ">> \o TextOf(args.city) \o <<",", " ">> \o TextOf(args.state)
                        \o <<" ">> \o TextOf(args.zip)))

\* fullAddress: the line of sanitizedAddress || cleanedAddress
fullAddressFrom(cleaned, sanitized, args) == addressLine(IF sanitized # <<>> THEN sanitized ELSE cleaned, args)

fullAddressOf(args) ==
  fullAddressFrom(cleanAddress(args.address), sanitizeAddress(cleanAddress(args.address)), args)

cityStateOf(args) == trim(TextOf(args.city) \o <<",", " ">> \o TextOf(args.state) \o <<" ">> \o TextOf(args.zip))

nameCityStateOf(args) ==
  trim(TextOf(args.name) \o <<",", " ">> \o TextOf(args.city) \o <<",", " ">> \o TextOf(args.state))

InSeq(x, list) == \E i \in 1..Len(list) : list[i] = x

\* if (q && !queries.includes(q)) queries.push(q)
pushUnique(queries, q) == IF q # <<>> /\ ~InSeq(q, queries) THEN Append(queries, q) ELSE queries

\* queries = [fullAddress], and alt behind it when the abbreviations changed the street
streetQueries(cleaned, sanitized, fullAddress, alt) ==
  IF sanitized # <<>> /\ sanitized # cleaned /\ alt # <<>> /\ alt # fullAddress
  THEN <<fullAddress, alt>> ELSE <<fullAddress>>

streetQueriesFrom(cleaned, sanitized, args) ==
  streetQueries(cleaned, sanitized, fullAddressFrom(cleaned, sanitized, args), addressLine(cleaned, args))

\* the address variants handed to the open geocoding service, in order
nominatimQueries(args) ==
  pushUnique(pushUnique(streetQueriesFrom(cleanAddress(args.address), sanitizeAddress(cleanAddress(args.address)), args),
                        cityStateOf(args)),
             nameCityStateOf(args))

\* Where the providers place a query: the street address resolves to the
\* hospital itself, the bare city to its centre one tenth of a degree north.
LocateQuery(args, query) ==
  IF query = cityStateOf(args) THEN [lat |-> JNum(1), lon |-> JNum(0)] ELSE [lat |-> JNum(0), lon |-> JNum(0)]

\* What the provider calls of one geocoding run answer.
GoogleOutcomes == {"ok", "status", "throws"}
NominatimOutcomes == {"ok", "http", "empty", "throws"}
CensusOutcomes == {"ok", "nomatch", "throws"}

GeoReturn(value, cache, calls) ==
  [threw |-> FALSE, error |-> "", status |-> 0, value |-> value, cache |-> cache, calls |-> calls]

GeoThrow(error, cache, calls) ==
  [threw |-> TRUE, error |-> error, status |-> 0, value |-> JNull, cache |-> cache, calls |-> calls]

\* the record a provider's answer is turned into
geocodeRecord(point, provider) == [lat |-> point.lat, lon |-> point.lon, provider |-> JStr(provider)]

\* for (const query of queries) { result = await queryNominatim(query); if (result) return result; }
\* a fetch that rejects is not caught; an error status, a non-JSON body, a
\* body that does not parse and an empty array all give null
RECURSIVE nominatimLoop(_, _, _, _)
nominatimLoop(args, queries, i, env) ==
  IF i > Len(queries) THEN [threw |-> FALSE, found |-> FALSE, record |-> JNull, calls |-> <<>>]
  ELSE CASE env.nominatim[i] = "throws" ->
              [threw |-> TRUE, found |-> FALSE, record |-> JNull,
               calls |-> <<[svc |-> "nominatim", query |-> queries[i]]>>]
         [] env.nominatim[i] = "ok" ->
              [threw |-> FALSE, found |-> TRUE,
               record |-> geocodeRecord(LocateQuery(args, queries[i]), <<"nominatim">>),
               calls |-> <<[svc |-> "nominatim", query |-> queries[i]]>>]
         [] OTHER ->
              [nominatimLoop(args, queries, i + 1, env) EXCEPT
                 !.calls = <<[svc |-> "nominatim", query |-> queries[i]]>> \o @]

\* geocodeHospitalAddress behind the cache miss: point is where the street
\* address lies, nominatim what the loop over the queries gave
geocodeUncached(cache, googleKey, env, key, fullAddress, point, nominatim) ==
  LET googleCalls == IF googleKey THEN <<[svc |-> "google", query |-> fullAddress]>> ELSE <<>>
      censusCalls == <<[svc |-> "census", query |-> fullAddress]>>
  IN IF googleKey /\ env.google = "ok"
     THEN GeoReturn(geocodeRecord(point, <<"google">>),
                    saveCachedCoordinates(cache, key, geocodeRecord(point, <<"google">>)), googleCalls)
     ELSE IF nominatim.threw
          THEN GeoThrow("FetchError", cache, googleCalls \o nominatim.calls)
     ELSE IF nominatim.found
          THEN GeoReturn(nominatim.record, saveCachedCoordinates(cache, key, nominatim.record),
                         googleCalls \o nominatim.calls)
     ELSE IF env.census = "ok"
          THEN GeoReturn(geocodeRecord(point, <<"census">>),
                         saveCachedCoordinates(cache, key, geocodeRecord(point, <<"census">>)),
                         googleCalls \o nominatim.calls \o censusCalls)
     ELSE GeoThrow("GeocodingFailed", cache, googleCalls \o nominatim.calls \o censusCalls)

geocodeKeyed(args, cache, googleKey, env, key) ==
  IF getCachedCoordinates(cache, key) # JNull
  THEN GeoReturn(getCachedCoordinates(cache, key), cache, <<>>)
  ELSE geocodeUncached(cache, googleKey, env, key, fullAddressOf(args), LocateQuery(args, fullAddressOf(args)),
                       nominatimLoop(args, nominatimQueries(args), 1, env))

geocodeHospitalAddress(args, cache, googleKey, env) == geocodeKeyed(args, cache, googleKey, env, normalizeKey(args))

\* ------------------------------------------------------- place-id resolver
\* The clock counts hours.
DAY_MS == 24

\* a store or memory layer with the entry of one key created or replaced
Upsert(table, key, row) == [k \in (DOMAIN table) \cup {key} |-> IF k = key THEN row ELSE table[k]]

\* String(ccn).padStart(6, "0")
normalizeCcn(ccn) == padStart(String(ccn), 6, "0")

\* readCacheRecord: the row of the key, projected.  Of the payload the model
\* keeps place_id, name and resolved_at; formatted_address and location are
\* copied beside name in the same way.
readCacheRecord(store, key) ==
  IF key = <<>> \/ key \notin DOMAIN store THEN JNull
  ELSE [place_id |-> Or(store[key].place_id, JNull),
        name |-> Or(store[key].name, JNull),
        resolved_at |-> Or(store[key].resolved_at, JNull)]

\* writeCacheRecord: upsert; a payload without resolved_at is stamped now
writeCacheRecord(store, key, payload, now) ==
  IF key = <<>> THEN store
  ELSE Upsert(store, key, [place_id |-> Or(payload.place_id, JNull),
                           name |-> Or(payload.name, JNull),
                           resolved_at |-> IF Truthy(payload.resolved_at) THEN payload.resolved_at ELSE JNum(now)])

\* createPlaceIdCache().get: the memory layer first, then the store; a row
\* found in the store is kept in memory.  readOk = FALSE: the store read rejects.
placeCacheGet(mem, store, key, readOk) ==
  IF key = <<>> THEN [threw |-> FALSE, value |-> JNull, mem |-> mem, read |-> FALSE]
  ELSE IF key \in DOMAIN mem THEN [threw |-> FALSE, value |-> mem[key], mem |-> mem, read |-> FALSE]
  ELSE IF ~readOk THEN [threw |-> TRUE, value |-> JNull, mem |-> mem, read |-> TRUE]
  ELSE LET record == readCacheRecord(store, key)
       IN [threw |-> FALSE, value |-> record,
           mem |-> IF record # JNull THEN Upsert(mem, key, record) ELSE mem, read |-> TRUE]

\* createPlaceIdCache().set: memory is written before the store write is
\* awaited.  writeOk = FALSE: the store write rejects.
placeCacheSet(mem, store, key, payload, now, writeOk) ==
  IF key = <<>> THEN [threw |-> FALSE, mem |-> mem, store |-> store]
  ELSE [threw |-> ~writeOk, mem |-> Upsert(mem, key, payload),
        store |-> IF writeOk THEN writeCacheRecord(store, key, payload, now) ELSE store]

\* parts.filter(Boolean).map(lower-case, trim).filter(Boolean).join("|")
RECURSIVE joinParts(_)
joinParts(parts) ==
  IF parts = <<>> THEN <<>>
  ELSE IF Len(parts) = 1 THEN parts[1]
  ELSE parts[1] \o <<"|">> \o joinParts(Tail(parts))

normalizeKeyParts(parts) ==
  LET present == SelectSeq(parts, LAMBDA x : Truthy(x))
      lowered == [i \in 1..Len(present) |-> trim(toLowerCase(String(present[i])))]
  IN joinParts(SelectSeq(lowered, LAMBDA x : x # <<>>))

keyForFacility(facility) ==
  LET ccn == Or(Or(Or(Or(Get(facility, "CCN"), Get(facility, "provider_id")),
                      Get(facility, "federal_provider_number")),
                   Get(facility, "provider_number")), JNull)
  IN IF Truthy(ccn) THEN <<"ccn:">> \o normalizeCcn(ccn)
     ELSE <<"name:">> \o normalizeKeyParts(<<Get(facility, "facility_name"), Get(facility, "address"),
                                             Get(facility, "city"), Get(facility, "state"),
                                             Get(facility, "zip_code")>>)

\* [name, address, city, state, zip].filter(Boolean).join(", ") || name || null
RECURSIVE joinComma(_)
joinComma(parts) ==
  IF parts = <<>> THEN <<>>
  ELSE IF Len(parts) = 1 THEN String(parts[1])
  ELSE String(parts[1]) \o <<",", " ">> \o joinComma(Tail(parts))

buildQuery(facility) ==
  LET pieces == joinComma(SelectSeq(<<Get(facility, "facility_name"), Get(facility, "address"),
                                      Get(facility, "city"), Get(facility, "state"),
                                      Get(facility, "zip_code")>>, LAMBDA x : Truthy(x)))
  IN Or(Or(JStr(pieces), Get(facility, "facility_name")), JNull)

\* an entry of exactly the maximum age counted as fresh
isFreshInclusive(entry, now, maxAgeMs) ==
  IF entry = JNull \/ ~Truthy(entry.resolved_at) THEN FALSE
  ELSE now - entry.resolved_at.v <= maxAgeMs

\* entry?.resolved_at present and Date.now() - entry.resolved_at < maxAgeMs
isFresh(entry, now, maxAgeMs) ==
  IF entry = JNull \/ ~Truthy(entry.resolved_at) THEN FALSE
  ELSE now - entry.resolved_at.v < maxAgeMs

\* the place the search provider knows for a query
LivePlaceOf(facility) ==
  [place_id |-> JStr(<<"live:">> \o TextOf(Get(facility, "facility_name"))),
   name |-> Get(facility, "facility_name")]

\* findPlaceId: no key is an error, no query is no request; an error status
\* or a rejected fetch throws, a body without candidates gives null
FindOutcomes == {"found", "none", "throws"}

findPlaceId(facility, query, apiKey, outcome) ==
  IF ~apiKey THEN [threw |-> TRUE, value |-> JNull, calls |-> <<>>]
  ELSE IF ~Truthy(query) THEN [threw |-> FALSE, value |-> JNull, calls |-> <<>>]
  ELSE LET call == <<[svc |-> "findPlace", query |-> query.s]>>
       IN CASE outcome = "throws" -> [threw |-> TRUE, value |-> JNull, calls |-> call]
            [] outcome = "none" -> [threw |-> FALSE, value |-> JNull, calls |-> call]
            [] OTHER -> [threw |-> FALSE, value |-> LivePlaceOf(facility), calls |-> call]

PlaceReturn(value, mem, store, calls) ==
  [threw |-> FALSE, error |-> "", status |-> 0, value |-> value, mem |-> mem, store |-> store, calls |-> calls]

PlaceThrow(error, mem, store, calls) ==
  [threw |-> TRUE, error |-> error, status |-> 0, value |-> JNull, mem |-> mem, store |-> store, calls |-> calls]

\* a lookup without candidate remembered as an entry without place id
getPlaceIdFoundCachingMiss(store, now, env, cacheKey, got, found, priorCalls) ==
  LET payload == [place_id |-> IF found.value = JNull THEN JNull ELSE found.value.place_id,
                  name |-> IF found.value = JNull THEN JNull ELSE Or(found.value.name, JNull),
                  resolved_at |-> JNum(now)]
      put == placeCacheSet(got.mem, store, cacheKey, payload, now, env.write = "ok")
      writeCalls == <<[svc |-> "placeStoreWrite", query |-> cacheKey]>>
  IN IF found.threw
     THEN PlaceReturn(got.value, got.mem, store, priorCalls \o found.calls)
     ELSE IF put.threw \/ found.value = JNull
          THEN PlaceReturn(got.value, put.mem, put.store, priorCalls \o found.calls \o writeCalls)
     ELSE PlaceReturn(Spread(payload, [source |-> JStr(<<"fresh">>)]), put.mem, put.store,
                      priorCalls \o found.calls \o writeCalls)

\* getPlaceId behind findPlaceId: the payload is stored and returned; a cache
\* write that rejects is caught like a failed lookup.  "cached || null" is
\* cached itself: a missing entry is already null
getPlaceIdFound(store, now, env, cacheKey, got, found, priorCalls) ==
  LET payload == [place_id |-> found.value.place_id,
                  name |-> Or(found.value.name, JNull),
                  resolved_at |-> JNum(now)]
      put == placeCacheSet(got.mem, store, cacheKey, payload, now, env.write = "ok")
      writeCalls == <<[svc |-> "placeStoreWrite", query |-> cacheKey]>>
  IN IF found.threw \/ found.value = JNull
     THEN PlaceReturn(got.value, got.mem, store, priorCalls \o found.calls)
     ELSE IF put.threw
          THEN PlaceReturn(got.value, put.mem, put.store, priorCalls \o found.calls \o writeCalls)
     ELSE PlaceReturn(Spread(payload, [source |-> JStr(<<"fresh">>)]), put.mem, put.store,
                      priorCalls \o found.calls \o writeCalls)

\* getPlaceId behind cache.get, which is awaited outside the try block
getPlaceIdCached(facility, store, now, apiKey, maxAgeMs, env, cacheKey, got) ==
  LET readCalls == IF got.read THEN <<[svc |-> "placeStoreRead", query |-> cacheKey]>> ELSE <<>>
  IN IF got.threw THEN PlaceThrow("StoreError", got.mem, store, readCalls)
     ELSE IF got.value # JNull /\ isFresh(got.value, now, maxAgeMs)
          THEN PlaceReturn(Spread(got.value, [source |-> JStr(<<"cache">>)]), got.mem, store, readCalls)
     ELSE IF ~apiKey THEN PlaceReturn(got.value, got.mem, store, readCalls)
     ELSE getPlaceIdFound(store, now, env, cacheKey, got,
                          findPlaceId(facility, buildQuery(facility), apiKey, env.find), readCalls)

getPlaceIdKeyed(facility, mem, store, now, apiKey, maxAgeMs, env, cacheKey) ==
  getPlaceIdCached(facility, store, now, apiKey, maxAgeMs, env, cacheKey,
                   placeCacheGet(mem, store, cacheKey, env.read = "ok"))

\* the entry of the seed table for the facility, null when it has none
seedEntry(ccnKey, seedPlaceIds) ==
  IF Truthy(ccnKey) /\ normalizeCcn(ccnKey) \in DOMAIN seedPlaceIds THEN seedPlaceIds[normalizeCcn(ccnKey)] ELSE JNull

getPlaceIdSeeded(facility, mem, store, now, apiKey, maxAgeMs, env, seed) ==
  IF seed # JNull /\ Truthy(seed.google_place_id)
  THEN PlaceReturn([place_id |-> seed.google_place_id, name |-> Or(seed.google_name, JNull),
                    source |-> JStr(<<"seed">>)], mem, store, <<>>)
  ELSE getPlaceIdKeyed(facility, mem, store, now, apiKey, maxAgeMs, env, keyForFacility(facility))

getPlaceId(facility, mem, store, now, apiKey, maxAgeMs, seedPlaceIds, env) ==
  getPlaceIdSeeded(facility, mem, store, now, apiKey, maxAgeMs, env,
                   seedEntry(Or(Or(Get(facility, "CCN"), Get(facility, "provider_id")),
                                Get(facility, "federal_provider_number")), seedPlaceIds))

\* --------------------------------------------------------- review service
\* readSnapshot: the stored snapshot with fetched_at taken from the row
readSnapshot(store, placeId) ==
  IF placeId = <<>> \/ placeId \notin DOMAIN store THEN JNull
  ELSE Spread(store[placeId].snapshot, [fetched_at |-> Coalesce(store[placeId].fetched_at, JNull)])

\* writeSnapshot: upsert; a payload without fetched_at is stamped now
writeSnapshot(store, placeId, payload, now) ==
  IF placeId = <<>> THEN store
  ELSE Upsert(store, placeId,
              [snapshot |-> payload,
               fetched_at |-> IF Truthy(payload.fetched_at) THEN payload.fetched_at ELSE JNum(now)])

\* createReviewCache().get
reviewCacheGet(mem, store, placeId, readOk) ==
  IF placeId = <<>> THEN [threw |-> FALSE, value |-> JNull, mem |-> mem, read |-> FALSE]
  ELSE IF placeId \in DOMAIN mem THEN [threw |-> FALSE, value |-> mem[placeId], mem |-> mem, read |-> FALSE]
  ELSE IF ~readOk THEN [threw |-> TRUE, value |-> JNull, mem |-> mem, read |-> TRUE]
  ELSE LET record == readSnapshot(store, placeId)
       IN [threw |-> FALSE, value |-> record,
           mem |-> IF record # JNull THEN Upsert(mem, placeId, record) ELSE mem, read |-> TRUE]

\* createReviewCache().set
reviewCacheSet(mem, store, placeId, payload, now, writeOk) ==
  IF placeId = <<>> THEN [threw |-> FALSE, mem |-> mem, store |-> store]
  ELSE [threw |-> ~writeOk, mem |-> Upsert(mem, placeId, payload),
        store |-> IF writeOk THEN writeSnapshot(store, placeId, payload, now) ELSE store]

\* entry?.fetched_at missing: Infinity (never fresh); else Date.now() - fetched_at
IsWithinWindow(entry, now, maxAgeMs) ==
  IF entry = JNull \/ ~Truthy(entry.fetched_at) THEN FALSE
  ELSE now - entry.fetched_at.v < maxAgeMs

\* fetchPlaceDetails: an error status, a status other than OK and a rejected
\* fetch all throw
DetailsOutcomes == {"ok", "throws"}

\* the rating the details provider reports for a place
LiveRating == 4

\* Of the snapshot the model keeps google_place_id, google_rating and
\* fetched_at; the other fields are computed from the same response.
snapshotOf(placeId, now) ==
  [google_place_id |-> JStr(placeId), google_rating |-> JNum(LiveRating), fetched_at |-> JNum(now)]

ReviewReturn(value, mem, store, calls) ==
  [threw |-> FALSE, error |-> "", status |-> 0, value |-> value, mem |-> mem, store |-> store, calls |-> calls]

ReviewThrow(error, mem, store, calls) ==
  [threw |-> TRUE, error |-> error, status |-> 0, value |-> JNull, mem |-> mem, store |-> store, calls |-> calls]

\* getReviewSnapshot behind cache.get, which is awaited outside the try block
getReviewSnapshotCached(placeId, store, now, apiKey, maxAgeMs, env, got) ==
  LET readCalls == IF got.read THEN <<[svc |-> "reviewStoreRead", query |-> placeId]>> ELSE <<>>
      detailCalls == <<[svc |-> "placeDetails", query |-> placeId]>>
      put == reviewCacheSet(got.mem, store, placeId, snapshotOf(placeId, now), now, env.write = "ok")
      writeCalls == <<[svc |-> "reviewStoreWrite", query |-> placeId]>>
  IN IF got.threw THEN ReviewThrow("StoreError", got.mem, store, readCalls)
     ELSE IF got.value # JNull /\ IsWithinWindow(got.value, now, maxAgeMs)
          THEN ReviewReturn(got.value, got.mem, store, readCalls)
     ELSE IF ~apiKey THEN ReviewReturn(got.value, got.mem, store, readCalls)
     ELSE IF env.details = "throws" THEN ReviewReturn(got.value, got.mem, store, readCalls \o detailCalls)
     ELSE IF put.threw
          THEN ReviewReturn(got.value, put.mem, put.store, readCalls \o detailCalls \o writeCalls)
     ELSE ReviewReturn(snapshotOf(placeId, now), put.mem, put.store, readCalls \o detailCalls \o writeCalls)

getReviewSnapshot(placeId, mem, store, now, apiKey, maxAgeMs, env) ==
  IF placeId = <<>> THEN ReviewReturn(JNull, mem, store, <<>>)
  ELSE getReviewSnapshotCached(placeId, store, now, apiKey, maxAgeMs, env,
                               reviewCacheGet(mem, store, placeId, env.read = "ok"))

\* ------------------------------------------------------- quality metrics
\* Promise.allSettled never rejects: a rejected fetch has no value and its
\* metric is null, so the four keys are always present.
QualityOutcomes == {"ok", "partial", "failed"}

LiveMobility == 70
LiveDischarge == 55

fetchQualityMetrics(ccn, outcome) ==
  ("Mobility at Discharge" :> (IF outcome = "ok" THEN JNum(LiveMobility) ELSE JNull))
    @@ ("Discharge to Community Rate" :> (IF outcome = "failed" THEN JNull ELSE JNum(LiveDischarge)))
    @@ ("Fall with Major Injury Rate" :> JNull)
    @@ ("Healthcare-Associated Infection Rate" :> JNull)

\* ----------------------------------------------------- facility enrichment
PLACE_MAX_AGE_DAYS == 30
REVIEWS_MAX_AGE_DAYS == 7

\* obj[ccn]: the property named by the text of ccn
Lookup(table, ccn) == IF String(ccn) \in DOMAIN table THEN table[String(ccn)] ELSE JUndef

EmptyObject == [k \in {} |-> JNull]

facilityCcn(facility) ==
  Or(Or(Or(Get(facility, "CMS Certification Number (CCN)"), Get(facility, "CCN")),
        Get(facility, "provider_id")), Get(facility, "federal_provider_number"))

\* the seed table consulted before the properties of the facility
knownPlaceIdSeedFirst(facility, googlePlaceIds) ==
  LET ccn == Or(Or(Or(Get(facility, "CMS Certification Number (CCN)"), Get(facility, "CCN")),
                   Get(facility, "provider_id")), Get(facility, "federal_provider_number"))
      normalizedCcn == IF Truthy(ccn) THEN normalizeCcn(ccn) ELSE <<>>
      seeded == IF normalizedCcn # <<>> /\ normalizedCcn \in DOMAIN googlePlaceIds
                THEN googlePlaceIds[normalizedCcn].google_place_id ELSE JUndef
  IN Or(Or(Or(Or(Or(seeded, Get(facility, "google_place_id")), Get(facility, "google_placeid")),
              Get(facility, "place_id")), Get(facility, "googlePlaceId")), JNull)

\* the place id known before the resolver is asked: an explicit property of
\* the facility, else the seed table under the padded CCN, else null
knownPlaceId(facility, googlePlaceIds) ==
  LET ccn == facilityCcn(facility)
      normalizedCcn == IF Truthy(ccn) THEN normalizeCcn(ccn) ELSE <<>>
      seeded == IF normalizedCcn # <<>> /\ normalizedCcn \in DOMAIN googlePlaceIds
                THEN googlePlaceIds[normalizedCcn].google_place_id ELSE JUndef
  IN Or(Or(Or(Or(Or(Get(facility, "google_place_id"), Get(facility, "google_placeid")),
                 Get(facility, "place_id")), Get(facility, "googlePlaceId")), seeded), JNull)

\* the loop body behind the review service: the entry pushed to results
\* the rank written first, so that a Local_Rank of the record replaces it
rankedRecordFirst(facility, index, quality) ==
  Spread(Spread([Local_Rank |-> JNum(index + 1)], facility), quality)

\* { ...facility, Local_Rank: index + 1, ...quality, ... }
rankedFacility(facility, index, quality) ==
  Spread(Spread(facility, [Local_Rank |-> JNum(index + 1)]), quality)

enrichReviewed(facility, index, timelines, regulatoryTimelines, env, ccn, resolved, reviewed) ==
  LET historical == IF Truthy(ccn) /\ Lookup(timelines, ccn) # JUndef
                    THEN Lookup(timelines, ccn).years ELSE EmptyObject
      regulatory == IF Truthy(ccn) /\ Lookup(regulatoryTimelines, ccn) # JUndef
                    THEN Lookup(regulatoryTimelines, ccn) ELSE JNull
      entry == Spread(rankedFacility(facility, index, fetchQualityMetrics(ccn, env.quality)),
                      [historical_metrics |-> historical,
                       historical_years_available |-> JNum(Cardinality(DOMAIN historical)),
                       regulatory_history |-> regulatory,
                       review_enrichment |-> reviewed.value])
  IN [threw |-> reviewed.threw,
      error |-> reviewed.error,
      value |-> IF reviewed.threw THEN JNull ELSE entry,
      caches |-> [placeMem |-> resolved.mem, placeStore |-> resolved.store,
                  reviewMem |-> reviewed.mem, reviewStore |-> reviewed.store],
      calls |-> <<[svc |-> "cms", query |-> String(ccn)]>> \o resolved.calls \o reviewed.calls]

\* the loop body behind the resolver: if (resolved?.place_id) placeId = resolved.place_id,
\* then the review service when there is one and a place id
enrichPlaced(facility, index, timelines, regulatoryTimelines, conf, caches, now, env, ccn, resolved, placeId) ==
  enrichReviewed(facility, index, timelines, regulatoryTimelines, env, ccn, resolved,
                 IF conf.reviews /\ Truthy(placeId)
                 THEN getReviewSnapshot(placeId.s, caches.reviewMem, caches.reviewStore, now, conf.apiKey,
                                        REVIEWS_MAX_AGE_DAYS * DAY_MS, env.review)
                 ELSE ReviewReturn(JNull, caches.reviewMem, caches.reviewStore, <<>>))

enrichResolved(facility, index, timelines, regulatoryTimelines, conf, caches, now, env, ccn, known, resolved) ==
  IF resolved.threw
  THEN [threw |-> TRUE, error |-> resolved.error, value |-> JNull,
        caches |-> [caches EXCEPT !.placeMem = resolved.mem, !.placeStore = resolved.store],
        calls |-> <<[svc |-> "cms", query |-> String(ccn)]>> \o resolved.calls]
  ELSE enrichPlaced(facility, index, timelines, regulatoryTimelines, conf, caches, now, env, ccn, resolved,
                    IF resolved.value # JNull /\ Truthy(Get(resolved.value, "place_id"))
                    THEN resolved.value.place_id ELSE known)

\* the loop body behind the known place id: the resolver is asked when there
\* is none and a resolver was passed
enrichKnown(facility, index, timelines, regulatoryTimelines, googlePlaceIds, conf, caches, now, env, ccn, known) ==
  enrichResolved(facility, index, timelines, regulatoryTimelines, conf, caches, now, env, ccn, known,
                 IF ~Truthy(known) /\ conf.resolver
                 THEN getPlaceId(facility, caches.placeMem, caches.placeStore, now, conf.apiKey,
                                 PLACE_MAX_AGE_DAYS * DAY_MS, googlePlaceIds, env.place)
                 ELSE PlaceReturn(JNull, caches.placeMem, caches.placeStore, <<>>))

\* one turn of the loop over topFacilities (index counts from 0)
enrichFacility(facility, index, timelines, regulatoryTimelines, googlePlaceIds, conf, caches, now, env) ==
  enrichKnown(facility, index, timelines, regulatoryTimelines, googlePlaceIds, conf, caches, now, env,
              facilityCcn(facility), knownPlaceId(facility, googlePlaceIds))

\* ------------------------------------------------------------ boot data
Digits015009 == <<"0", "1", "5", "0", "0", "9">>
Digits15010 == <<"1", "5", "0", "1", "0">>
Digits015010 == <<"0", "1", "5", "0", "1", "0">>
Digits015011 == <<"0", "1", "5", "0", "1", "1">>

\* mapHospitalRow: a hospital as the loader stores it; a row without
\* coordinates has latitude and longitude null
LoadedHospital(name, address, lat, lon) ==
  [hospital_name |-> JStr(name), address |-> JStr(address), city |-> JStr(<<"Gary">>),
   state |-> JStr(<<"IN">>), zip_code |-> JStr(<<"4", "6">>), latitude |-> lat, longitude |-> lon]

\* the hospitals handed to performAnalysis: two rows without coordinates,
\* without and with an abbreviation in the address, and one row whose
\* coordinates the loader parsed
Hospitals ==
  << LoadedHospital(<<"A", "b">>, <<"1", "2", " ", "Main">>, JNull, JNull),
     LoadedHospital(<<"c", " ", "a">>, <<"1", "2", " ", "Hwy", " ", "PO BOX">>, JNull, JNull),
     LoadedHospital(<<"B">>, <<"PO BOX">>, JNum(0), JNum(0)) >>

\* mapSNFRow: a facility as the loader stores it; the identifier is copied to
\* CCN, provider_id and "CMS Certification Number (CCN)"
LoadedFacility(name, ccn, lat, lon, composite) ==
  [facility_name |-> JStr(name), address |-> JStr(<<"9", " ", "Main">>), city |-> JStr(<<"Gary">>),
   state |-> JStr(<<"IN">>), zip_code |-> JStr(<<"4", "6">>), latitude |-> lat, longitude |-> lon,
   Composite_Score |-> composite, CCN |-> ccn, provider_id |-> ccn]
    @@ ("CMS Certification Number (CCN)" :> ccn)

WithRating(facility, rating) == Spread(facility, ("overall_rating" :> rating) @@ ("Overall Rating" :> rating))

\* the facilities of the enrichment runs: an explicit place id and a padded
\* CCN; a CCN without its leading zero and a seed entry; a numeric CCN and
\* neither; one facility outside the default radius
EnrichmentSnfs ==
  << Spread(LoadedFacility(<<"a">>, JStr(Digits015009), JNum(0), JNum(0), JNum(80)),
            [google_place_id |-> JStr(<<"px">>)]),
     Spread(LoadedFacility(<<"b">>, JStr(Digits15010), JNum(2), JNum(0), JNum(60)),
            "Mobility at Discharge" :> JNum(64)),
     LoadedFacility(<<"c">>, JNum(15011), JNum(5), JNum(0), JNull),
     LoadedFacility(<<"a", " ", "b">>, JStr(<<"9">>), JNum(9), JNum(0), JNum(40)) >>

\* the facilities ranking runs choose from, in an order that is sorted by no key
RankingPool ==
  << WithRating(LoadedFacility(<<"b">>, JStr(Digits015010), JNum(5), JNum(0), JNum(40)), JNum(3)),
     LoadedFacility(<<"C">>, JStr(Digits015011), JNum(2), JNum(0), JNull),
     WithRating(LoadedFacility(<<"a">>, JStr(Digits015009), JNum(0), JNum(2), JNum(80)), JNum(5)),
     WithRating(LoadedFacility(<<"a", "b">>, JStr(<<"7">>), JNum(9), JNum(0), JNum(60)), JNum(1)),
     LoadedFacility(<<"c">>, JStr(<<"8">>), JNull, JNull, JNum(100)),
     Spread(WithRating(LoadedFacility(<<"B">>, JStr(<<"6">>), JNum(0), JNum(0), JNum(80)), JNum(5)),
            [Local_Rank |-> JNum(9)]),
     LoadedFacility(<<>>, JStr(<<"5">>), JNum(1), JNum(0), JNum(50)) >>

\* loadHistoricalSNFQuality: one timeline per CCN, under the padded CCN
TimelineOf(ccn) ==
  [ccn |-> JStr(ccn), years |-> (2022 :> [pressure_ulcer_rate |-> JNum(10)]) @@ (2024 :> [pressure_ulcer_rate |-> JNum(14)])]

HistoricalSnfTimelines ==
  (Digits015009 :> TimelineOf(Digits015009)) @@ (Digits015010 :> TimelineOf(Digits015010))
    @@ (Digits015011 :> TimelineOf(Digits015011))

\* loadHistoricalRegulatory: citations and penalties per year, under the padded CCN
RegulatoryOf(ccn) ==
  [ccn |-> JStr(ccn), citations |-> (2023 :> [total |-> JNum(2)]), penalties |-> (2023 :> [fines |-> JNum(1)])]

HistoricalRegulatory ==
  (Digits015009 :> RegulatoryOf(Digits015009)) @@ (Digits015010 :> RegulatoryOf(Digits015010))
    @@ (Digits015011 :> RegulatoryOf(Digits015011))

\* loadGooglePlaceIds: the seed table, under the padded CCN
GooglePlaceIds ==
  (Digits015009 :> [google_place_id |-> JStr(<<"seed:a">>), google_name |-> JStr(<<"a">>)])
    @@ (Digits015010 :> [google_place_id |-> JStr(<<"seed:b">>), google_name |-> JStr(<<"b">>)])

\* ------------------------------------------------------------------ state
VARIABLES
  hospitals,      \* the hospital records loaded at boot (performAnalysis writes into them)
  snfs,           \* the facility records loaded at boot
  conf,           \* googleKey, apiKey: the keys are configured; resolver, reviews: the services are passed
  geocodeCache,   \* the geocode table: key -> [lat, lon, provider]
  placeMem,       \* place-id cache, memory layer
  placeStore,     \* place-id cache, table
  reviewMem,      \* review cache, memory layer
  reviewStore,    \* review cache, table
  now,            \* Date.now()
  steps,          \* clock advances and direct service calls so far
  pc,             \* where the running call stands: idle, geocode, rank, enrich, done
  req,            \* the call and its arguments
  hIdx,           \* index of the matched hospital
  hLat,           \* hospital latitude in use
  hLon,           \* hospital longitude in use
  withDistance,   \* facilities within the radius, with their distance
  topFacilities,  \* the ranked facilities that are returned
  results,        \* the enriched facilities so far
  calls,          \* the collaborator calls of the running call, in order
  tasks,          \* the concurrent service calls under way: task -> [pc, placeId, cached, snapshot]
  outcome         \* how the call ended: kind none, returned or threw

vars == <<hospitals, snfs, conf, geocodeCache, placeMem, placeStore, reviewMem, reviewStore, now, steps,
          pc, req, hIdx, hLat, hLon, withDistance, topFacilities, results, calls, tasks, outcome>>

caches == <<geocodeCache, placeMem, placeStore, reviewMem, reviewStore>>
locals == <<hIdx, hLat, hLon, withDistance, topFacilities, results>>

NoOutcome == [kind |-> "none", error |-> "", status |-> 0, stage |-> "", value |-> JNull]
Threw(error, status, stage) == [kind |-> "threw", error |-> error, status |-> status, stage |-> stage, value |-> JNull]
Returned(value) == [kind |-> "returned", error |-> "", status |-> 0, stage |-> "", value |-> value]

EmptyTable == [k \in {} |-> JNull]

\* the clock at boot
ClockStart == 40 * DAY_MS

\* a match on the exact text only
MatchesExactly(h, hospitalName) == Get(h, "hospital_name").s = hospitalName.s

\* hospitals.find(h => h.hospital_name.toUpperCase().trim() === hospitalName.toUpperCase().trim())
\* as the index of the first match, 0 for none
MatchesName(h, hospitalName) ==
  trim(toUpperCase(Get(h, "hospital_name").s)) = trim(toUpperCase(hospitalName.s))

findHospital(list, hospitalName) ==
  IF \E i \in 1..Len(list) : MatchesName(list[i], hospitalName)
  THEN CHOOSE i \in 1..Len(list) :
         MatchesName(list[i], hospitalName) /\ \A j \in 1..(i - 1) : ~MatchesName(list[j], hospitalName)
  ELSE 0

\* performAnalysis up to its first await: the argument check, the hospital
\* match (idx is the matched index, 0 for none) and the stored coordinates
AnalysisStarted(hospitalName, options, idx, lat, lon) ==
  /\ req' = [op |-> "performAnalysis", hospitalName |-> hospitalName, options |-> options]
  /\ calls' = <<>>
  /\ IF ~Truthy(hospitalName)
     THEN /\ outcome' = Threw("hospitalName required", 0, "arguments")
          /\ pc' = "done"
          /\ UNCHANGED <<hIdx, hLat, hLon>>
     ELSE IF idx = 0
     THEN /\ outcome' = Threw("Hospital not found", 404, "match")
          /\ pc' = "done"
          /\ UNCHANGED <<hIdx, hLat, hLon>>
     ELSE /\ outcome' = NoOutcome
          /\ hIdx' = idx
          /\ hLat' = lat
          /\ hLon' = lon
          /\ pc' = IF NumberIsNaN(lat) \/ NumberIsNaN(lon) THEN "geocode" ELSE "rank"

\* let hLat = parseFloat(hospital.Latitude), hLon = parseFloat(hospital.Longitude)
StoredCoordinate(list, idx, property) == IF idx = 0 THEN JNaN ELSE parseFloat(Get(list[idx], property))

AnalysisMatched(hospitalName, options, idx) ==
  AnalysisStarted(hospitalName, options, idx, StoredCoordinate(hospitals, idx, "Latitude"),
                  StoredCoordinate(hospitals, idx, "Longitude"))

StartAnalysis(names, optionSets) ==
  /\ pc = "idle"
  /\ \E hospitalName \in names, options \in optionSets :
       AnalysisMatched(hospitalName, options, findHospital(hospitals, hospitalName))
  /\ UNCHANGED <<hospitals, snfs, conf, tasks, caches, now, steps, withDistance, topFacilities, results>>

geocodeArgsOf(hospital) ==
  [name |-> Get(hospital, "hospital_name"), address |-> Get(hospital, "address"),
   city |-> Get(hospital, "city"), state |-> Get(hospital, "state"), zip |-> Get(hospital, "zip_code")]

\* the four assignments behind the await of geocodeHospitalAddress
Geocoded(geo) ==
  /\ geocodeCache' = geo.cache
  /\ calls' = calls \o geo.calls
  /\ IF geo.threw
     THEN /\ outcome' = Threw(geo.error, 0, "geocode")
          /\ pc' = "done"
          /\ UNCHANGED <<hospitals, hLat, hLon>>
     ELSE /\ hLat' = geo.value.lat
          /\ hLon' = geo.value.lon
          /\ hospitals' = [hospitals EXCEPT ![hIdx] =
                             Spread(@, [latitude |-> geo.value.lat, longitude |-> geo.value.lon])]
          /\ pc' = "rank"
          /\ UNCHANGED outcome

\* the await of geocodeHospitalAddress
GeocodeHospital(envs) ==
  /\ pc = "geocode"
  /\ \E env \in envs :
       Geocoded(geocodeHospitalAddress(geocodeArgsOf(hospitals[hIdx]), geocodeCache, conf.googleKey, env))
  /\ UNCHANGED <<snfs, conf, tasks, placeMem, placeStore, reviewMem, reviewStore, now, steps, req, hIdx,
                 withDistance, topFacilities, results>>

\* the sort and the truncation of the facilities within the radius
Ranked(within) ==
  /\ withDistance' = within
  /\ topFacilities' = TopFacilities(sortFacilities(within, ResolvedSortBy(req.options), ResolvedOrder(req.options)),
                                    req.options)

\* the radius filter, the sort and the truncation
RankFacilities ==
  /\ pc = "rank"
  /\ Ranked(WithDistance(snfs, hLat, hLon, OptionOr(req.options, "radiusMiles", JNum(DEFAULT_RADIUS_MILES))))
  /\ results' = <<>>
  /\ pc' = "enrich"
  /\ UNCHANGED <<hospitals, snfs, conf, tasks, caches, now, steps, req, hIdx, hLat, hLon, calls, outcome>>

\* what one turn of the enrichment loop leaves behind
Enriched(done) ==
  /\ placeMem' = done.caches.placeMem
  /\ placeStore' = done.caches.placeStore
  /\ reviewMem' = done.caches.reviewMem
  /\ reviewStore' = done.caches.reviewStore
  /\ calls' = calls \o done.calls
  /\ IF done.threw
     THEN /\ outcome' = Threw(done.error, 0, "enrich")
          /\ pc' = "done"
          /\ UNCHANGED results
     ELSE /\ results' = Append(results, done.value)
          /\ UNCHANGED <<outcome, pc>>

\* one turn of the enrichment loop
EnrichFacility(envs) ==
  /\ pc = "enrich"
  /\ Len(results) < Len(topFacilities)
  /\ \E env \in envs :
       Enriched(enrichFacility(topFacilities[Len(results) + 1], Len(results), HistoricalSnfTimelines,
                               HistoricalRegulatory, GooglePlaceIds, conf,
                               [placeMem |-> placeMem, placeStore |-> placeStore,
                                reviewMem |-> reviewMem, reviewStore |-> reviewStore], now, env))
  /\ UNCHANGED <<hospitals, snfs, conf, tasks, geocodeCache, now, steps, req, hIdx, hLat, hLon,
                 withDistance, topFacilities>>

\* return { hospital, facilities, totalWithinRadius }
ReturnAnalysis ==
  /\ pc = "enrich"
  /\ Len(results) = Len(topFacilities)
  /\ outcome' = Returned([hospital |-> [name |-> Get(hospitals[hIdx], "hospital_name"),
                                        city |-> Get(hospitals[hIdx], "city"),
                                        state |-> Get(hospitals[hIdx], "state"),
                                        latitude |-> hLat, longitude |-> hLon],
                          facilities |-> results,
                          totalWithinRadius |-> Len(withDistance)])
  /\ pc' = "done"
  /\ UNCHANGED <<hospitals, snfs, conf, tasks, caches, now, steps, req, locals, calls>>

\* ------------------------------------------------------------ input sets
MaxSnfs == 3
MaxQueries == 4

Healthy == [quality |-> "ok",
            place |-> [read |-> "ok", find |-> "found", write |-> "ok"],
            review |-> [read |-> "ok", details |-> "ok", write |-> "ok"]]

AllProvidersAnswer == [google |-> "ok", nominatim |-> [i \in 1..MaxQueries |-> "ok"], census |-> "ok"]
NoProviderAnswers == [google |-> "status", nominatim |-> [i \in 1..MaxQueries |-> "empty"], census |-> "nomatch"]

RECURSIVE pickFrom(_, _, _)
pickFrom(pool, chosen, i) ==
  IF i > Len(pool) THEN <<>>
  ELSE (IF i \in chosen THEN <<pool[i]>> ELSE <<>>) \o pickFrom(pool, chosen, i + 1)

\* every list of at most MaxSnfs facilities of the pool, in pool order
FacilityLists(pool) ==
  {pickFrom(pool, chosen, 1) : chosen \in {c \in SUBSET (1..Len(pool)) : Cardinality(c) <= MaxSnfs}}

RankNames == {JStr(<<"A", "b">>)}

RankOptions ==
  [mode : {JUndef, JStr(<<"best">>), JStr(<<"closest">>)},
   radiusMiles : {JUndef, JNum(20)},
   limit : {JUndef, JNum(1), JNum(-1)},
   sortBy : {JUndef, JStr(<<"distance">>), JStr(<<"Composite">>), JStr(<<"rating">>), JStr(<<"name">>)},
   order : {JUndef, JStr(<<"asc">>), JStr(<<"DESC">>), JStr(<<"u", "p">>)}]

InitCommon ==
  /\ hospitals = Hospitals
  /\ placeMem = EmptyTable
  /\ reviewMem = EmptyTable
  /\ now = ClockStart
  /\ steps = 0
  /\ pc = "idle"
  /\ req = [op |-> "none"]
  /\ hIdx = 0
  /\ hLat = JNaN
  /\ hLon = JNaN
  /\ withDistance = <<>>
  /\ topFacilities = <<>>
  /\ results = <<>>
  /\ calls = <<>>
  /\ tasks = <<>>
  /\ outcome = NoOutcome

\* ranking runs: any facility list, any options, no resolver and no review
\* service passed (their defaults), every provider answering
InitRank ==
  /\ InitCommon
  /\ snfs \in FacilityLists(RankingPool)
  /\ geocodeCache = EmptyTable
  /\ conf = [googleKey |-> TRUE, apiKey |-> FALSE, resolver |-> FALSE, reviews |-> FALSE]
  /\ placeStore = EmptyTable
  /\ reviewStore = EmptyTable

NextRank ==
  \/ StartAnalysis(RankNames, RankOptions)
  \/ GeocodeHospital({AllProvidersAnswer})
  \/ RankFacilities
  \/ EnrichFacility({Healthy})
  \/ ReturnAnalysis

SpecRank == InitRank /\ [][NextRank]_vars

\* ------------------------------------------------------------ view route
\* Number(x) for a query-string value made of digits
RECURSIVE digitsValue(_)
digitsValue(str) ==
  IF str = <<>> THEN 0
  ELSE 10 * digitsValue(SubSeq(str, 1, Len(str) - 1))
         + ((CHOOSE d \in 1..10 : DigitChars[d] = str[Len(str)]) - 1)

Number(x) ==
  IF x.t = "num" THEN x
  ELSE IF x.t = "str" /\ \A i \in 1..Len(x.s) : \E d \in 1..10 : DigitChars[d] = x.s[i]
       THEN JNum(digitsValue(x.s))
  ELSE JNaN

\* the options the route passes to performAnalysis
viewOptions(query) ==
  [mode |-> Get(query, "mode"),
   radiusMiles |-> IF Truthy(Get(query, "radiusMiles")) THEN Number(Get(query, "radiusMiles")) ELSE JUndef,
   limit |-> IF Truthy(Get(query, "limit")) THEN Number(Get(query, "limit")) ELSE JUndef,
   sortBy |-> Get(query, "sortBy"),
   order |-> Get(query, "order")]

\* sort: { by: sortBy || (mode === "best" ? "composite" : "distance"),
\*         order: order || (sortBy === "distance" ? "asc" : "desc") }
viewSort(query) ==
  [by |-> Or(Get(query, "sortBy"),
             IF Get(query, "mode") = JStr(<<"best">>) THEN JStr(<<"composite">>) ELSE JStr(<<"distance">>)),
   order |-> Or(Get(query, "order"),
                IF Get(query, "sortBy") = JStr(<<"distance">>) THEN JStr(<<"asc">>) ELSE JStr(<<"desc">>))]

Responded(status, error, body) ==
  [kind |-> "responded", error |-> error, status |-> status, stage |-> "", value |-> body]

\* GET /view: the check of hospitalName and the call of performAnalysis
ViewRequested(names, queries) ==
  /\ pc = "idle"
  /\ \E hospitalName \in names, query \in queries :
       IF ~Truthy(hospitalName)
       THEN /\ req' = [op |-> "view", hospitalName |-> hospitalName, options |-> viewOptions(query)]
            /\ outcome' = Responded(400, "hospitalName required", JNull)
            /\ pc' = "responded"
            /\ UNCHANGED <<hIdx, hLat, hLon, calls>>
       ELSE AnalysisMatched(hospitalName, viewOptions(query), findHospital(hospitals, hospitalName))
  /\ UNCHANGED <<hospitals, snfs, conf, tasks, caches, now, steps, withDistance, topFacilities, results>>

\* GET /view behind performAnalysis: the answer with the sort echo, or the
\* error status
ViewResponded ==
  /\ pc = "done"
  /\ outcome' = IF outcome.kind = "returned"
                THEN Responded(200, "", [hospital |-> outcome.value.hospital,
                                         facilities |-> outcome.value.facilities,
                                         totalWithinRadius |-> outcome.value.totalWithinRadius,
                                         sort |-> viewSort(req.options)])
                ELSE IF outcome.status = 404 THEN Responded(404, outcome.error, JNull)
                ELSE Responded(500, outcome.error, JNull)
  /\ pc' = "responded"
  /\ UNCHANGED <<hospitals, snfs, conf, tasks, caches, now, steps, req, locals, calls>>

ViewNames == {JStr(<<>>), JStr(<<"A", "b">>), JStr(<<"c">>)}

ViewQueries ==
  [mode : {JUndef, JStr(<<"best">>), JStr(<<"closest">>)},
   radiusMiles : {JUndef, JStr(<<"2", "0">>)},
   limit : {JUndef, JStr(<<"2">>)},
   sortBy : {JUndef, JStr(<<"distance">>), JStr(<<"Composite">>), JStr(<<"rating">>), JStr(<<"name">>)},
   order : {JUndef, JStr(<<"asc">>), JStr(<<"DESC">>), JStr(<<"up">>)}]

InitView ==
  /\ InitCommon
  /\ snfs = SubSeq(RankingPool, 1, MaxSnfs)
  /\ geocodeCache = EmptyTable
  /\ conf = [googleKey |-> TRUE, apiKey |-> FALSE, resolver |-> FALSE, reviews |-> FALSE]
  /\ placeStore = EmptyTable
  /\ reviewStore = EmptyTable

NextView ==
  \/ ViewRequested(ViewNames, ViewQueries)
  \/ GeocodeHospital({AllProvidersAnswer, NoProviderAnswers})
  \/ RankFacilities
  \/ EnrichFacility({Healthy})
  \/ ReturnAnalysis
  \/ ViewResponded

SpecView == InitView /\ [][NextView]_vars

\* ------------------------------------------------------- analysis requests
\* what one turn of the enrichment loop meets: every dependency answering, or
\* one of them failing
EnrichmentEnvs ==
  { Healthy,
    [Healthy EXCEPT !.quality = "partial"],
    [Healthy EXCEPT !.quality = "failed"],
    [Healthy EXCEPT !.place.read = "fails"],
    [Healthy EXCEPT !.place.find = "none"],
    [Healthy EXCEPT !.place.find = "throws"],
    [Healthy EXCEPT !.place.write = "fails"],
    [Healthy EXCEPT !.review.read = "fails"],
    [Healthy EXCEPT !.review.details = "throws"],
    [Healthy EXCEPT !.review.write = "fails"] }

\* the place-id table with rows of the given age for the second and the third
\* facility, as cache.set left them
PlaceStoreAged(days) ==
  LET at == ClockStart - days * DAY_MS
      row(name) == [place_id |-> JStr(<<"old:">> \o name), name |-> JStr(name), resolved_at |-> JNum(at)]
  IN writeCacheRecord(writeCacheRecord(EmptyTable, keyForFacility(EnrichmentSnfs[2]), row(<<"b">>), at),
                      keyForFacility(EnrichmentSnfs[3]), row(<<"c">>), at)

\* the review table with snapshots of the given age for the place ids in use
ReviewStoreAged(days) ==
  LET at == ClockStart - days * DAY_MS
      put(store, placeId) ==
        writeSnapshot(store, placeId,
                      [google_place_id |-> JStr(placeId), google_rating |-> JNum(3), fetched_at |-> JNum(at)], at)
  IN put(put(put(put(EmptyTable, <<"px">>), <<"seed:b">>), <<"old:", "c">>), <<"live:", "c">>)

MainNames ==
  { JStr(<<>>), JStr(<<"c">>), JStr(<<"A", "b">>), JStr(<<" ", "a", "B", " ">>), JStr(<<"B">>) }

MainOptions ==
  [mode : {JUndef}, radiusMiles : {JUndef}, limit : {JUndef, JNum(2)}, sortBy : {JUndef}, order : {JUndef}]

Init ==
  /\ InitCommon
  /\ snfs = EnrichmentSnfs
  /\ geocodeCache = EmptyTable
  /\ conf \in {[googleKey |-> TRUE, apiKey |-> k, resolver |-> TRUE, reviews |-> TRUE] : k \in BOOLEAN}
  /\ placeStore \in {EmptyTable, PlaceStoreAged(1), PlaceStoreAged(31)}
  /\ reviewStore \in {EmptyTable, ReviewStoreAged(1), ReviewStoreAged(8)}

Next ==
  \/ StartAnalysis(MainNames, MainOptions)
  \/ GeocodeHospital({AllProvidersAnswer, NoProviderAnswers})
  \/ RankFacilities
  \/ EnrichFacility(EnrichmentEnvs)
  \/ ReturnAnalysis

Spec == Init /\ [][Next]_vars

\* ------------------------------------------------------- geocoding calls
\* what the queries of one run answer: the outcomes behind the first answer
\* or rejection are never asked for
NominatimRuns ==
  {run \in [1..MaxQueries -> NominatimOutcomes] :
     \A i \in 1..MaxQueries : run[i] \in {"ok", "throws"} => \A j \in (i + 1)..MaxQueries : run[j] = "empty"}

GeocodeEnvs == [google : GoogleOutcomes, nominatim : NominatimRuns, census : CensusOutcomes]

\* the geocode table with the row an earlier run stored for the third hospital
GeocodeCacheSeeded ==
  saveCachedCoordinates(EmptyTable, normalizeKey(geocodeArgsOf(Hospitals[3])),
                        geocodeRecord([lat |-> JNum(0), lon |-> JNum(0)], <<"census">>))

GeocodeAnswered(i, env, geo) ==
  /\ req' = [op |-> "geocodeHospitalAddress", hospital |-> i, env |-> env]
  /\ geocodeCache' = geo.cache
  /\ calls' = geo.calls
  /\ outcome' = IF geo.threw THEN Threw(geo.error, 0, "geocode") ELSE Returned(geo.value)
  /\ pc' = "done"

\* one call of geocodeHospitalAddress with the address of a loaded hospital
GeocodeAddress(envs) ==
  /\ pc = "idle"
  /\ \E i \in 1..Len(hospitals), env \in envs :
       GeocodeAnswered(i, env, geocodeHospitalAddress(geocodeArgsOf(hospitals[i]), geocodeCache, conf.googleKey, env))
  /\ UNCHANGED <<hospitals, snfs, conf, tasks, placeMem, placeStore, reviewMem, reviewStore, now, steps, locals>>

InitGeocode ==
  /\ InitCommon
  /\ snfs = EnrichmentSnfs
  /\ conf \in {[googleKey |-> k, apiKey |-> FALSE, resolver |-> FALSE, reviews |-> FALSE] : k \in BOOLEAN}
  /\ geocodeCache \in {EmptyTable, GeocodeCacheSeeded}
  /\ placeStore = EmptyTable
  /\ reviewStore = EmptyTable

NextGeocode == GeocodeAddress(GeocodeEnvs)

SpecGeocode == InitGeocode /\ [][NextGeocode]_vars

\* ------------------------------------------------- resolver and review calls
\* how many clock advances and service calls a run of the two specifications
\* below takes
MaxSteps == 4

\* the clock advances by a number of days
Tick(days) ==
  /\ pc = "idle"
  /\ steps < MaxSteps
  /\ \E d \in days : now' = now + d * DAY_MS
  /\ steps' = steps + 1
  /\ UNCHANGED <<hospitals, snfs, conf, tasks, caches, pc, req, locals, calls, outcome>>

PlaceEnvs == [read : {"ok", "fails"}, find : FindOutcomes, write : {"ok", "fails"}]

PlaceResolved(i, env, resolved) ==
  /\ req' = [op |-> "getPlaceId", facility |-> i, env |-> env]
  /\ placeMem' = resolved.mem
  /\ placeStore' = resolved.store
  /\ calls' = resolved.calls
  /\ outcome' = IF resolved.threw THEN Threw(resolved.error, 0, "place") ELSE Returned(resolved.value)

\* one call of googlePlaceResolver.getPlaceId with a loaded facility
ResolvePlace(indices, envs) ==
  /\ pc = "idle"
  /\ steps < MaxSteps
  /\ \E i \in indices, env \in envs :
       PlaceResolved(i, env, getPlaceId(snfs[i], placeMem, placeStore, now, conf.apiKey,
                                   PLACE_MAX_AGE_DAYS * DAY_MS, GooglePlaceIds, env))
  /\ steps' = steps + 1
  /\ UNCHANGED <<hospitals, snfs, conf, tasks, geocodeCache, reviewMem, reviewStore, now, pc, locals>>

InitPlace ==
  /\ InitCommon
  /\ snfs = EnrichmentSnfs
  /\ geocodeCache = EmptyTable
  /\ conf \in {[googleKey |-> TRUE, apiKey |-> k, resolver |-> TRUE, reviews |-> TRUE] : k \in BOOLEAN}
  /\ placeStore \in {EmptyTable, PlaceStoreAged(31)}
  /\ reviewStore = EmptyTable

NextPlace ==
  \/ ResolvePlace({2, 3}, PlaceEnvs)
  \/ Tick({1, PLACE_MAX_AGE_DAYS})

SpecPlace == InitPlace /\ [][NextPlace]_vars

\* the review service is asked with every dependency answering or one failing
ReviewEnvs ==
  { Healthy.review,
    [Healthy.review EXCEPT !.read = "fails"],
    [Healthy.review EXCEPT !.details = "throws"],
    [Healthy.review EXCEPT !.write = "fails"] }

ReviewCalls == {[placeId |-> <<"px">>, env |-> env] : env \in ReviewEnvs}
                 \cup {[placeId |-> <<>>, env |-> Healthy.review]}

ReviewAnswered(call, reviewed) ==
  /\ req' = [op |-> "getReviewSnapshot", placeId |-> call.placeId, env |-> call.env]
  /\ reviewMem' = reviewed.mem
  /\ reviewStore' = reviewed.store
  /\ calls' = reviewed.calls
  /\ outcome' = IF reviewed.threw THEN Threw(reviewed.error, 0, "review") ELSE Returned(reviewed.value)

\* one call of googleReviewsService.getReviewSnapshot
FetchReviews(reviewCalls) ==
  /\ pc = "idle"
  /\ steps < MaxSteps
  /\ \E call \in reviewCalls :
       ReviewAnswered(call, getReviewSnapshot(call.placeId, reviewMem, reviewStore, now, conf.apiKey,
                                              REVIEWS_MAX_AGE_DAYS * DAY_MS, call.env))
  /\ steps' = steps + 1
  /\ UNCHANGED <<hospitals, snfs, conf, tasks, geocodeCache, placeMem, placeStore, now, pc, locals>>

InitReview ==
  /\ InitCommon
  /\ snfs = EnrichmentSnfs
  /\ geocodeCache = EmptyTable
  /\ conf \in {[googleKey |-> TRUE, apiKey |-> k, resolver |-> TRUE, reviews |-> TRUE] : k \in BOOLEAN}
  /\ placeStore = EmptyTable
  /\ reviewStore \in {EmptyTable, ReviewStoreAged(8)}

NextReview ==
  \/ FetchReviews(ReviewCalls)
  \/ Tick({1, REVIEWS_MAX_AGE_DAYS})

SpecReview == InitReview /\ [][NextReview]_vars

\* resolver and review calls in one process, as the enrichment loop mixes them
InitLookup ==
  /\ InitCommon
  /\ snfs = EnrichmentSnfs
  /\ geocodeCache = EmptyTable
  /\ conf \in {[googleKey |-> TRUE, apiKey |-> k, resolver |-> TRUE, reviews |-> TRUE] : k \in BOOLEAN}
  /\ placeStore \in {EmptyTable, PlaceStoreAged(31)}
  /\ reviewStore \in {EmptyTable, ReviewStoreAged(8)}

NextLookup ==
  \/ ResolvePlace({3}, PlaceEnvs)
  \/ FetchReviews(ReviewCalls)
  \/ Tick({REVIEWS_MAX_AGE_DAYS})

SpecLookup == InitLookup /\ [][NextLookup]_vars

\* ------------------------------------------- concurrent review requests
\* getReviewSnapshot runs up to each await and resumes when the awaited
\* promise settles; between the two, other requests run.  Every collaborator
\* answers here: the interleaving alone is under study.
MaxTasks == 2

IdleTask == [pc |-> "idle", placeId |-> <<>>, cached |-> JNull, snapshot |-> JNull]

\* getReviewSnapshot(placeId) up to "await cache.get(placeId)": the memory
\* layer answers at once, else readSnapshot is under way
CallReviewSnapshot(t, placeIds) ==
  /\ tasks[t].pc = "idle"
  /\ steps < MaxSteps
  /\ \E placeId \in placeIds :
       tasks' = [tasks EXCEPT ![t] =
                   IF placeId \in DOMAIN reviewMem
                   THEN [pc |-> "got", placeId |-> placeId, cached |-> reviewMem[placeId], snapshot |-> JNull]
                   ELSE [pc |-> "reading", placeId |-> placeId, cached |-> JNull, snapshot |-> JNull]]
  /\ steps' = steps + 1
  /\ UNCHANGED <<hospitals, snfs, conf, caches, now, pc, req, locals, calls, outcome>>

\* readSnapshot settles: cache.get keeps a record in the memory layer
SnapshotRead(t) ==
  /\ tasks[t].pc = "reading"
  /\ tasks' = [tasks EXCEPT ![t].pc = "got", ![t].cached = readSnapshot(reviewStore, tasks[t].placeId)]
  /\ reviewMem' = IF readSnapshot(reviewStore, tasks[t].placeId) # JNull
                   THEN Upsert(reviewMem, tasks[t].placeId, readSnapshot(reviewStore, tasks[t].placeId))
                   ELSE reviewMem
  /\ UNCHANGED <<hospitals, snfs, conf, geocodeCache, placeMem, placeStore, reviewStore, now, steps,
                 pc, req, locals, calls, outcome>>

\* getReviewSnapshot resumes behind cache.get: a fresh snapshot or a missing
\* key ends the call, else fetchPlaceDetails is started
ReviewResumed(t) ==
  /\ tasks[t].pc = "got"
  /\ IF IsWithinWindow(tasks[t].cached, now, REVIEWS_MAX_AGE_DAYS * DAY_MS) \/ ~conf.apiKey
     THEN /\ tasks' = [tasks EXCEPT ![t] = IdleTask]
          /\ outcome' = Returned(tasks[t].cached)
          /\ calls' = calls
     ELSE /\ tasks' = [tasks EXCEPT ![t].pc = "fetching"]
          /\ calls' = Append(calls, [svc |-> "placeDetails", query |-> tasks[t].placeId])
          /\ outcome' = outcome
  /\ UNCHANGED <<hospitals, snfs, conf, caches, now, steps, pc, req, locals>>

\* fetchPlaceDetails settles: the snapshot is built and cache.set puts it in
\* the memory layer before it awaits writeSnapshot
DetailsFetched(t) ==
  /\ tasks[t].pc = "fetching"
  /\ tasks' = [tasks EXCEPT ![t].pc = "writing", ![t].snapshot = snapshotOf(tasks[t].placeId, now)]
  /\ reviewMem' = Upsert(reviewMem, tasks[t].placeId, snapshotOf(tasks[t].placeId, now))
  /\ UNCHANGED <<hospitals, snfs, conf, geocodeCache, placeMem, placeStore, reviewStore, now, steps,
                 pc, req, locals, calls, outcome>>

\* writeSnapshot settles and the snapshot is returned
SnapshotWritten(t) ==
  /\ tasks[t].pc = "writing"
  /\ reviewStore' = writeSnapshot(reviewStore, tasks[t].placeId, tasks[t].snapshot, now)
  /\ outcome' = Returned(tasks[t].snapshot)
  /\ tasks' = [tasks EXCEPT ![t] = IdleTask]
  /\ UNCHANGED <<hospitals, snfs, conf, geocodeCache, placeMem, placeStore, reviewMem, now, steps,
                 pc, req, locals, calls>>

InitRace ==
  /\ hospitals = Hospitals
  /\ snfs = EnrichmentSnfs
  /\ conf \in {[googleKey |-> TRUE, apiKey |-> k, resolver |-> TRUE, reviews |-> TRUE] : k \in BOOLEAN}
  /\ geocodeCache = EmptyTable
  /\ placeMem = EmptyTable
  /\ placeStore = EmptyTable
  /\ reviewMem = EmptyTable
  /\ reviewStore \in {EmptyTable, ReviewStoreAged(1), ReviewStoreAged(8)}
  /\ now = ClockStart
  /\ steps = 0
  /\ pc = "idle"
  /\ req = [op |-> "getReviewSnapshot"]
  /\ hIdx = 0
  /\ hLat = JNaN
  /\ hLon = JNaN
  /\ withDistance = <<>>
  /\ topFacilities = <<>>
  /\ results = <<>>
  /\ calls = <<>>
  /\ tasks = [t \in 1..MaxTasks |-> IdleTask]
  /\ outcome = NoOutcome

NextRace ==
  \E t \in 1..MaxTasks :
    \/ CallReviewSnapshot(t, {<<"px">>, <<"seed:b">>})
    \/ SnapshotRead(t)
    \/ ReviewResumed(t)
    \/ DetailsFetched(t)
    \/ SnapshotWritten(t)

SpecRace == InitRace /\ [][NextRace]_vars

\* ------------------------------------------------ concurrent geocode calls
\* Calls of geocodeHospitalAddress that overlap: each call is cut at its
\* awaits, the cache read and the provider chain with the upsert behind it.
\* began and ended count the steps of the run; asked counts provider calls.
IdleGeocode == [pc |-> "idle", hospital |-> 0, began |-> 0, ended |-> 0, asked |-> 0, value |-> JNull]

geocodeKeyOf(task) == normalizeKey(geocodeArgsOf(hospitals[task.hospital]))

\* geocodeHospitalAddress(...) up to "await getCachedCoordinates(key)"
CallGeocode(t, indices) ==
  /\ tasks[t].pc = "idle"
  /\ \E i \in indices : tasks' = [tasks EXCEPT ![t] = [IdleGeocode EXCEPT !.pc = "reading", !.hospital = i,
                                                                        !.began = steps + 1]]
  /\ steps' = steps + 1
  /\ UNCHANGED <<hospitals, snfs, conf, caches, now, pc, req, locals, calls, outcome>>

\* getCachedCoordinates settles: a row ends the call, else the providers are asked
CoordinatesRead(t) ==
  /\ tasks[t].pc = "reading"
  /\ tasks' = [tasks EXCEPT ![t] =
                IF getCachedCoordinates(geocodeCache, geocodeKeyOf(tasks[t])) # JNull
                THEN [@ EXCEPT !.pc = "returned", !.ended = steps + 1,
                               !.value = getCachedCoordinates(geocodeCache, geocodeKeyOf(tasks[t]))]
                ELSE [@ EXCEPT !.pc = "resolving"]]
  /\ steps' = steps + 1
  /\ UNCHANGED <<hospitals, snfs, conf, caches, now, pc, req, locals, calls, outcome>>

GeocodeSettled(t, geo) ==
  /\ geocodeCache' = geo.cache
  /\ calls' = calls \o geo.calls
  /\ tasks' = [tasks EXCEPT ![t].pc = IF geo.threw THEN "threw" ELSE "returned",
                            ![t].ended = steps + 1,
                            ![t].asked = Len(geo.calls),
                            ![t].value = geo.value]

\* the provider chain answers and saveCachedCoordinates upserts the row
ProvidersAnswered(t, envs) ==
  /\ tasks[t].pc = "resolving"
  /\ \E env \in envs :
       GeocodeSettled(t, geocodeUncached(geocodeCache, conf.googleKey, env, geocodeKeyOf(tasks[t]),
                                         fullAddressOf(geocodeArgsOf(hospitals[tasks[t].hospital])),
                                         LocateQuery(geocodeArgsOf(hospitals[tasks[t].hospital]),
                                                     fullAddressOf(geocodeArgsOf(hospitals[tasks[t].hospital]))),
                                         nominatimLoop(geocodeArgsOf(hospitals[tasks[t].hospital]),
                                                       nominatimQueries(geocodeArgsOf(hospitals[tasks[t].hospital])),
                                                       1, env)))
  /\ steps' = steps + 1
  /\ UNCHANGED <<hospitals, snfs, conf, placeMem, placeStore, reviewMem, reviewStore, now, pc, req, locals, outcome>>

\* the mapping provider refuses and the open service knows the city only
OnlyCityFound ==
  [google |-> "status",
   nominatim |-> [i \in 1..MaxQueries |-> IF i = 2 THEN "ok" ELSE "empty"],
   census |-> "nomatch"]

InitGeoRace ==
  /\ hospitals = Hospitals
  /\ snfs = EnrichmentSnfs
  /\ conf = [googleKey |-> TRUE, apiKey |-> FALSE, resolver |-> FALSE, reviews |-> FALSE]
  /\ geocodeCache \in {EmptyTable, GeocodeCacheSeeded}
  /\ placeMem = EmptyTable
  /\ placeStore = EmptyTable
  /\ reviewMem = EmptyTable
  /\ reviewStore = EmptyTable
  /\ now = ClockStart
  /\ steps = 0
  /\ pc = "idle"
  /\ req = [op |-> "geocodeHospitalAddress"]
  /\ hIdx = 0
  /\ hLat = JNaN
  /\ hLon = JNaN
  /\ withDistance = <<>>
  /\ topFacilities = <<>>
  /\ results = <<>>
  /\ calls = <<>>
  /\ tasks = [t \in 1..MaxTasks |-> IdleGeocode]
  /\ outcome = NoOutcome

NextGeoRace ==
  \E t \in 1..MaxTasks :
    \/ CallGeocode(t, {1, 3})
    \/ CoordinatesRead(t)
    \/ ProvidersAnswered(t, {AllProvidersAnswer, OnlyCityFound, NoProviderAnswers})

SpecGeoRace == InitGeoRace /\ [][NextGeoRace]_vars

\* ---------------------------------------------- dashboard: metric resolution
\* A metric definition is [currentKey, historicalKey, higherIsBetter];
\* currentKey is <<key>>, or <<>> for the definitions whose currentKey is null.
metricDefinitions ==
  { [currentKey |-> <<"Mobility at Discharge">>, historicalKey |-> "mobility_at_discharge", higherIsBetter |-> TRUE],
    [currentKey |-> <<"Pressure Ulcer Rate">>, historicalKey |-> "pressure_ulcer_rate", higherIsBetter |-> FALSE],
    [currentKey |-> <<>>, historicalKey |-> "short_stay_ed_visit_rate", higherIsBetter |-> FALSE] }

\* metric.currentKey && metric.currentKey in facility ? facility[metric.currentKey] : undefined
currentValueOf(facility, metric) ==
  IF metric.currentKey # <<>> /\ metric.currentKey[1] \in DOMAIN facility
  THEN facility[metric.currentKey[1]]
  ELSE JUndef

\* facility.historical_metrics || {}
historyOf(facility) ==
  IF "historical_metrics" \in DOMAIN facility THEN facility["historical_metrics"] ELSE EmptyObject

\* Object.keys(history).map(Number).sort((a, b) => a - b)
RECURSIVE sortYears(_)
sortYears(keys) ==
  IF keys = {} THEN <<>>
  ELSE LET least == CHOOSE y \in keys : \A z \in keys : y <= z
       IN <<least>> \o sortYears(keys \ {least})

\* history[year]?.[metric.historicalKey]
yearValue(history, year, metric) == Get(history[year], metric.historicalKey)

\* historicalLatest: the metric of the last year, null when that year lacks it
historicalLatestOf(history, years, metric) ==
  IF years = <<>> \/ IsNullish(yearValue(history, years[Len(years)], metric)) THEN JNull
  ELSE yearValue(history, years[Len(years)], metric)

historicalLatestYearOf(history, years, metric) ==
  IF years = <<>> \/ IsNullish(yearValue(history, years[Len(years)], metric)) THEN JNull
  ELSE JNum(years[Len(years)])

\* currentValue ?? historicalLatest
metricValueHistoryFirst(currentValue, historicalLatest) == Coalesce(historicalLatest, currentValue)

metricValue(currentValue, historicalLatest) == Coalesce(currentValue, historicalLatest)

\* currentValue != null ? "current" : historicalLatest != null ? "historical" : null
metricSource(currentValue, historicalLatest) ==
  IF ~IsNullish(currentValue) THEN JStr(<<"current">>)
  ELSE IF ~IsNullish(historicalLatest) THEN JStr(<<"historical">>)
  ELSE JNull

\* an unchanged metric counted as a rise
trendGoodNonNegative(delta, higherIsBetter) == IF higherIsBetter THEN delta >= 0 ELSE ~(delta >= 0)

\* positive = delta > 0; good = metric.higherIsBetter ? positive : !positive
trendGood(delta, higherIsBetter) == IF higherIsBetter THEN delta > 0 ELSE ~(delta > 0)

\* the trend over the first and the last year, null with fewer than two years
\* or when either year lacks the metric
trendOf(history, years, metric, historicalLatest) ==
  IF Len(years) >= 2 /\ ~IsNullish(historicalLatest) /\ ~IsNullish(yearValue(history, years[1], metric))
  THEN [delta |-> JNum(historicalLatest.v - yearValue(history, years[1], metric).v),
        good |-> trendGood(historicalLatest.v - yearValue(history, years[1], metric).v, metric.higherIsBetter),
        yearSpan |-> JStr(DigitsOf(years[1]) \o <<"->">> \o DigitsOf(years[Len(years)]))]
  ELSE JNull

resolvedMetric(metric, history, years, currentValue, historicalLatest) ==
  [value |-> metricValue(currentValue, historicalLatest),
   source |-> metricSource(currentValue, historicalLatest),
   historicalLatestYear |-> historicalLatestYearOf(history, years, metric),
   trend |-> trendOf(history, years, metric, historicalLatest)]

resolveMetricValue(facility, metric) ==
  resolvedMetric(metric, historyOf(facility), sortYears(DOMAIN historyOf(facility)),
                 currentValueOf(facility, metric),
                 historicalLatestOf(historyOf(facility), sortYears(DOMAIN historyOf(facility)), metric))

\* the facilities the dashboard is given: a current value (or none) under the
\* current keys, and a timeline (or none) whose years hold the metrics or not
MetricYears == {2022, 2023, 2024}
CurrentValues == {JUndef, JNull, JNum(0), JNum(12)}
YearValues == {JNull, JNum(0), JNum(10), JNum(14)}

YearRecord(v) ==
  [k \in {"mobility_at_discharge", "pressure_ulcer_rate", "short_stay_ed_visit_rate"} |-> v]

\* a year of the timeline that holds one metric only
OtherMetricOnly == [k \in {"pressure_ulcer_rate"} |-> JNum(10)]

Timelines ==
  UNION {[ys -> {EmptyObject, OtherMetricOnly} \cup {YearRecord(v) : v \in YearValues}] : ys \in SUBSET MetricYears}

WithCurrent(v) == [k \in {"Mobility at Discharge", "Pressure Ulcer Rate"} |-> v]

MetricFacilities ==
  {EmptyObject} \cup {WithCurrent(v) : v \in CurrentValues}
    \cup {Spread(WithCurrent(v), [historical_metrics |-> h]) : v \in CurrentValues, h \in Timelines}
    \cup {[historical_metrics |-> h] : h \in Timelines}

\* one rendering of a metric cell: resolveMetricValue(facility, metric)
ResolveMetric(facilities, metrics) ==
  /\ pc = "idle"
  /\ \E f \in facilities, m \in metrics :
       /\ req' = [op |-> "resolveMetricValue", facility |-> f, metric |-> m]
       /\ outcome' = Returned(resolveMetricValue(f, m))
  /\ pc' = "done"
  /\ UNCHANGED <<hospitals, snfs, conf, tasks, caches, now, steps, locals, calls>>

InitMetric ==
  /\ InitCommon
  /\ snfs = EnrichmentSnfs
  /\ geocodeCache = EmptyTable
  /\ conf = [googleKey |-> TRUE, apiKey |-> TRUE, resolver |-> TRUE, reviews |-> TRUE]
  /\ placeStore = EmptyTable
  /\ reviewStore = EmptyTable

NextMetric == ResolveMetric(MetricFacilities, metricDefinitions)

SpecMetric == InitMetric /\ [][NextMetric]_vars

\* ------------------------------------------------ quality timeline loader
\* toString(value): "" for null and undefined, else the trimmed text
toString(value) == IF IsNullish(value) THEN <<>> ELSE trim(String(value))

\* toNumber(value): null for null, undefined, "" and what is not a finite number
toNumber(value) ==
  IF IsNullish(value) \/ value = JStr(<<>>) THEN JNull
  ELSE IF Number(value).t = "num" THEN Number(value) ELSE JNull

\* toString(pickField(row, [...])).padStart(6, "0")
normalizeCCNFromRow(row) == padStart(toString(Get(row, "ccn")), 6, "0")

MDS_METRIC_CODES == [pressure_ulcer_rate |-> {<<"453">>}, fall_with_major_injury_rate |-> {<<"410">>}]
CLAIMS_METRIC_CODES == [short_stay_ed_visit_rate |-> {<<"522">>}]
QRP_METRIC_CODES == [mobility_at_discharge |-> {<<"S_025_04_OBS_RATE">>}]

\* String(row["Measure Code"] || "").trim()
measureCodeOf(row) == trim(String(Or(Get(row, "Measure Code"), JStr(<<>>))))

\* loadProviderInfo: the rows of the provider file under their padded CCN
RECURSIVE loadProviderInfo(_)
loadProviderInfo(rows) ==
  IF rows = <<>> THEN EmptyTable
  ELSE LET map == loadProviderInfo(SubSeq(rows, 1, Len(rows) - 1))
           row == rows[Len(rows)]
       IN IF trim(normalizeCCNFromRow(row)) = <<>> THEN map
          ELSE Upsert(map, normalizeCCNFromRow(row), row)

\* entry.facility_name || toString(row["Provider Name"])
mergeEntryDetails(entry, row) ==
  IF entry.facility_name # <<>> THEN entry
  ELSE [entry EXCEPT !.facility_name = toString(Get(row, "Provider Name"))]

mergeProviderInfo(entry, providerInfoMap) ==
  IF entry.ccn \notin DOMAIN providerInfoMap THEN entry
  ELSE mergeEntryDetails(entry, providerInfoMap[entry.ccn])

\* ensureEntry and entry.metrics[metricKey] = value; the map keeps the order
\* in which its entries were made
entryWithMetric(entryMap, ccn, providerInfoMap, sourceRow, year, metricKey, value) ==
  LET at == {i \in 1..Len(entryMap) : entryMap[i].ccn = ccn}
      made == IF at = {}
              THEN Append(entryMap, [ccn |-> ccn, year |-> year, facility_name |-> <<>>, metrics |-> EmptyObject])
              ELSE entryMap
      i == CHOOSE j \in 1..Len(made) : made[j].ccn = ccn
      merged == mergeProviderInfo(mergeEntryDetails(made[i], sourceRow), providerInfoMap)
  IN [made EXCEPT ![i] = [merged EXCEPT !.metrics = Spread(@, metricKey :> value)]]

\* the handler of one extract: rows without CCN, without a known measure code
\* or without a score are passed over
RECURSIVE ingestRows(_, _, _, _, _, _)
ingestRows(entryMap, rows, codes, scoreColumn, providerInfoMap, year) ==
  IF rows = <<>> THEN entryMap
  ELSE LET before == ingestRows(entryMap, SubSeq(rows, 1, Len(rows) - 1), codes, scoreColumn, providerInfoMap, year)
           row == rows[Len(rows)]
           ccn == normalizeCCNFromRow(row)
           keys == {k \in DOMAIN codes : measureCodeOf(row) \in codes[k]}
           value == toNumber(Get(row, scoreColumn))
       IN IF trim(ccn) = <<>> \/ keys = {} \/ value = JNull THEN before
          ELSE entryWithMetric(before, ccn, providerInfoMap, row, year, CHOOSE k \in keys : TRUE, value)

\* loadYear: the MDS, the claims and the QRP extract of one year
loadYear(year, extract) ==
  LET providerInfoMap == loadProviderInfo(extract.info)
      mds == ingestRows(<<>>, extract.mds, MDS_METRIC_CODES, "Four Quarter Average Score", providerInfoMap, year)
      claims == ingestRows(mds, extract.claims, CLAIMS_METRIC_CODES, "Adjusted Score", providerInfoMap, year)
      qrp == ingestRows(claims, extract.qrp, QRP_METRIC_CODES, "Score", providerInfoMap, year)
  IN SelectSeq(qrp, LAMBDA entry : DOMAIN entry.metrics # {})

\* timelines[row.ccn].years[year] = row.metrics, the timeline made on first sight
RECURSIVE timelinesWithRows(_, _, _)
timelinesWithRows(timelines, rows, year) ==
  IF rows = <<>> THEN timelines
  ELSE LET before == timelinesWithRows(timelines, SubSeq(rows, 1, Len(rows) - 1), year)
           row == rows[Len(rows)]
           timeline == IF row.ccn \in DOMAIN before THEN before[row.ccn]
                       ELSE [ccn |-> row.ccn, facility_name |-> row.facility_name, years |-> EmptyObject]
       IN Upsert(before, row.ccn, [timeline EXCEPT !.years = Spread(@, year :> row.metrics)])

\* loadHistoricalSNFQuality: year after year
RECURSIVE loadHistoricalSNFQuality(_, _)
loadHistoricalSNFQuality(years, extracts) ==
  IF years = <<>> THEN EmptyTable
  ELSE timelinesWithRows(loadHistoricalSNFQuality(SubSeq(years, 1, Len(years) - 1), extracts),
                         loadYear(years[Len(years)], extracts[years[Len(years)]]), years[Len(years)])

\* the rows of the extracts: with a CCN, with a CCN in need of padding,
\* with an empty CCN and without the CCN column
ExtractRow(ccn, name, code, scoreColumn, score) ==
  ("ccn" :> ccn) @@ ("Provider Name" :> name) @@ ("Measure Code" :> code) @@ (scoreColumn :> score)

MdsRow(ccn, code, score) == ExtractRow(ccn, JStr(<<"b">>), JStr(<<code>>), "Four Quarter Average Score", score)

MdsExtracts ==
  { <<>>,
    <<MdsRow(JStr(Digits15010), "453", JStr(<<"1", "2">>))>>,
    <<MdsRow(JUndef, "453", JStr(<<"9">>))>>,
    <<MdsRow(JStr(<<>>), "410", JStr(<<"3">>)), MdsRow(JStr(Digits015010), "453", JStr(<<"1", "4">>))>>,
    <<MdsRow(JStr(Digits015010), "999", JStr(<<"5">>)), MdsRow(JStr(Digits15010), "410", JStr(<<>>))>>,
    <<MdsRow(JStr(Digits015009), "453", JStr(<<"7">>)), MdsRow(JStr(Digits15010), "410", JStr(<<"2">>))>> }

ClaimsExtracts ==
  { <<>>,
    <<ExtractRow(JStr(Digits15010), JUndef, JStr(<<"522">>), "Adjusted Score", JStr(<<"8">>))>>,
    <<ExtractRow(JStr(<<" ">>), JUndef, JStr(<<"522">>), "Adjusted Score", JStr(<<"6">>))>> }

QrpExtracts ==
  { <<>>,
    <<ExtractRow(JStr(Digits015010), JUndef, JStr(<<"S_025_04_OBS_RATE">>), "Score", JStr(<<"4", "0">>))>>,
    <<ExtractRow(JNull, JUndef, JStr(<<"S_025_04_OBS_RATE">>), "Score", JStr(<<"3", "0">>))>> }

InfoExtracts ==
  { <<>>,
    <<("ccn" :> JStr(Digits15010)) @@ ("Provider Name" :> JStr(<<"a">>)),
      ("ccn" :> JUndef) @@ ("Provider Name" :> JStr(<<"c">>))>> }

YearExtracts == [mds : MdsExtracts, claims : ClaimsExtracts, qrp : QrpExtracts, info : InfoExtracts]

DEFAULT_YEARS == <<2023, 2024>>

\* one start of the loader over the extracts found on disk
LoadTimelines(choices) ==
  /\ pc = "idle"
  /\ \E first \in choices, second \in choices :
       LET extracts == (DEFAULT_YEARS[1] :> first) @@ (DEFAULT_YEARS[2] :> second)
       IN /\ req' = [op |-> "loadHistoricalSNFQuality", extracts |-> extracts]
          /\ outcome' = Returned(loadHistoricalSNFQuality(DEFAULT_YEARS, extracts))
  /\ pc' = "done"
  /\ UNCHANGED <<hospitals, snfs, conf, tasks, caches, now, steps, locals, calls>>

InitTimeline == InitMetric

NextTimeline == LoadTimelines(YearExtracts)

SpecTimeline == InitTimeline /\ [][NextTimeline]_vars

\* ----------------------------------------------------------------- claims
HasReturned == pc = "done" /\ outcome.kind = "returned"

RequestedRadius == OptionOr(req.options, "radiusMiles", JNum(DEFAULT_RADIUS_MILES))

\* C1: whenever performAnalysis returns a result, totalWithinRadius is at
\* least the length of the returned list and every returned facility has a
\* distance that is a number not above radiusMiles.
C1_CountAndRadius ==
  HasReturned =>
    /\ outcome.value.totalWithinRadius >= Len(outcome.value.facilities)
    /\ \A i \in 1..Len(outcome.value.facilities) :
         /\ Get(outcome.value.facilities[i], "distance").t = "num"
         /\ Get(outcome.value.facilities[i], "distance").v <= RequestedRadius.v

\* a call returned a truncated list, and the radius had excluded a facility
C1_Witness ==
  /\ HasReturned
  /\ Len(outcome.value.facilities) >= 1
  /\ Len(outcome.value.facilities) < outcome.value.totalWithinRadius
  /\ outcome.value.totalWithinRadius < Len(snfs)

\* the sort key of a facility for the numeric keys, read from its properties
NumericKey(f, by) ==
  CASE by = <<"distance">> -> Get(f, "distance")
    [] by = <<"composite">> -> Get(f, "Composite_Score")
    [] by = <<"rating">> -> Coalesce(Get(f, "overall_rating"), Get(f, "Overall Rating"))
    [] OTHER -> JNum(0)

\* C2: in the returned ranking, distance/asc puts a facility of minimum
\* distance among all within the radius first; composite/desc puts a facility
\* of maximum Composite_Score among those having one first; and for distance,
\* composite and rating, in both orders, no facility without the key stands
\* before a facility with it.
C2_SortOrder ==
  (HasReturned /\ outcome.value.facilities # <<>>) =>
    LET by == ResolvedSortBy(req.options)
        ord == ResolvedOrder(req.options)
        list == outcome.value.facilities
        scored == {i \in 1..Len(withDistance) : ~IsNullish(Get(withDistance[i], "Composite_Score"))}
    IN /\ (by = <<"distance">> /\ ord = <<"asc">>) =>
            \A i \in 1..Len(withDistance) : list[1]["distance"].v <= withDistance[i]["distance"].v
       /\ (by = <<"composite">> /\ ord = <<"desc">> /\ scored # {}) =>
            /\ ~IsNullish(Get(list[1], "Composite_Score"))
            /\ \A i \in scored : list[1]["Composite_Score"].v >= withDistance[i]["Composite_Score"].v
       /\ by \in {<<"distance">>, <<"composite">>, <<"rating">>} =>
            \A i, j \in 1..Len(list) :
              i < j => ~(IsNullish(NumericKey(list[i], by)) /\ ~IsNullish(NumericKey(list[j], by)))

\* a composite/desc ranking of several facilities, one of them without a
\* score, whose first facility is not the first of the loaded list
C2_Witness ==
  /\ HasReturned
  /\ ResolvedSortBy(req.options) = <<"composite">>
  /\ ResolvedOrder(req.options) = <<"desc">>
  /\ Len(outcome.value.facilities) >= 2
  /\ \E i \in 1..Len(outcome.value.facilities) : IsNullish(Get(outcome.value.facilities[i], "Composite_Score"))
  /\ outcome.value.facilities[1]["facility_name"] # snfs[1]["facility_name"]

Finished == pc = "done"

\* hospital_name equals hospitalName after upper-casing and trimming both
KnownHospital ==
  \E i \in 1..Len(hospitals) :
    trim(toUpperCase(hospitals[i]["hospital_name"].s)) = trim(toUpperCase(req.hospitalName.s))

IsNotFound == outcome.kind = "threw" /\ outcome.status = 404

NotFoundWhenUnknown ==
  /\ IsNotFound <=> ~KnownHospital
  /\ IsNotFound => (outcome.value = JNull /\ results = <<>> /\ topFacilities = <<>> /\ calls = <<>>)

\* C3 as stated: a call ends with the 404 error exactly when no loaded hospital
\* matches hospitalName, and then nothing is returned and no collaborator was
\* called.
C3_NotFoundExactly == Finished => NotFoundWhenUnknown

\* C3: for a non-empty hospitalName, a call ends with the 404 error exactly
\* when no loaded hospital's name equals it after upper-casing and trimming
\* both, and then nothing is returned and no collaborator was called.
C3_NotFoundForNamedRequest == (Finished /\ Truthy(req.hospitalName)) => NotFoundWhenUnknown

\* a call with a name no hospital carries has ended with the 404 error
C3_Witness == Finished /\ Truthy(req.hospitalName) /\ ~KnownHospital /\ IsNotFound

\* the identifier of a facility in its six-character zero-padded form
PaddedCcn(f) == padStart(String(Get(f, "CCN")), 6, "0")

\* C4: every returned facility carries as historical_metrics and as
\* regulatory_history the timelines stored under its zero-padded CCN.
C4_PaddedJoins ==
  HasReturned =>
    \A i \in 1..Len(outcome.value.facilities) :
      /\ PaddedCcn(outcome.value.facilities[i]) \in DOMAIN HistoricalSnfTimelines =>
           outcome.value.facilities[i]["historical_metrics"]
             = HistoricalSnfTimelines[PaddedCcn(outcome.value.facilities[i])].years
      /\ PaddedCcn(outcome.value.facilities[i]) \in DOMAIN HistoricalRegulatory =>
           outcome.value.facilities[i]["regulatory_history"]
             = HistoricalRegulatory[PaddedCcn(outcome.value.facilities[i])]

\* C5: once the hospital is matched and has coordinates, the call returns the
\* whole ranked list whatever the enrichment dependencies do.
C5_EnrichmentNeverThrows ==
  (Finished /\ hIdx # 0 /\ hLat.t = "num" /\ hLon.t = "num") =>
    (HasReturned /\ Len(outcome.value.facilities) = Len(topFacilities))

\* the collaborator calls a step adds
NewCalls == SubSeq(calls', Len(calls) + 1, Len(calls'))

Called(log, svc, query) == \E i \in 1..Len(log) : log[i].svc = svc /\ log[i].query = query

CalledAny(log, svc) == \E i \in 1..Len(log) : log[i].svc = svc

ExplicitPlaceId(f) ==
  Or(Or(Or(Get(f, "google_place_id"), Get(f, "google_placeid")), Get(f, "place_id")), Get(f, "googlePlaceId"))

SeedPlaceId(f) ==
  IF PaddedCcn(f) \in DOMAIN GooglePlaceIds THEN GooglePlaceIds[PaddedCcn(f)].google_place_id ELSE JNull

\* the entry the place-id cache holds for a facility, memory before the table
PlaceEntry(f) ==
  LET key == <<"ccn:">> \o PaddedCcn(f)
  IN IF key \in DOMAIN placeMem THEN placeMem[key]
     ELSE IF key \in DOMAIN placeStore THEN placeStore[key]
     ELSE JNull

FreshPlaceEntry(f) ==
  /\ PlaceEntry(f) # JNull
  /\ PlaceEntry(f).resolved_at.t = "num"
  /\ now - PlaceEntry(f).resolved_at.v < PLACE_MAX_AGE_DAYS * DAY_MS

\* one turn of the enrichment loop on facility f obeys the priority: an
\* explicit place id, else the seed entry, else a fresh cache entry, else the
\* live lookup
PlaceIdPriority(f, turnEnded) ==
  /\ Truthy(ExplicitPlaceId(f)) =>
       /\ ~CalledAny(NewCalls, "placeStoreRead") /\ ~CalledAny(NewCalls, "findPlace")
       /\ turnEnded => Called(NewCalls, "reviewStoreRead", ExplicitPlaceId(f).s)
  /\ (~Truthy(ExplicitPlaceId(f)) /\ Truthy(SeedPlaceId(f))) =>
       /\ ~CalledAny(NewCalls, "placeStoreRead") /\ ~CalledAny(NewCalls, "findPlace")
       /\ turnEnded => Called(NewCalls, "reviewStoreRead", SeedPlaceId(f).s)
  /\ (~Truthy(ExplicitPlaceId(f)) /\ ~Truthy(SeedPlaceId(f)) /\ FreshPlaceEntry(f)) =>
       /\ ~CalledAny(NewCalls, "findPlace")
       /\ turnEnded => Called(NewCalls, "reviewStoreRead", PlaceEntry(f).place_id.s)
  /\ CalledAny(NewCalls, "findPlace") =>
       (~Truthy(ExplicitPlaceId(f)) /\ ~Truthy(SeedPlaceId(f)) /\ ~FreshPlaceEntry(f))

\* C9: in every turn of the enrichment loop an explicit place id of the
\* facility is used without consulting seed table, cache or live lookup;
\* otherwise the seed entry of the padded CCN is used without consulting cache
\* or live lookup; otherwise a fresh cache entry is used without a live
\* lookup; the live lookup is made only when none of these gave a place id.
C9_PlaceIdPriority ==
  [][(pc = "enrich" /\ calls' # calls) =>
       PlaceIdPriority(topFacilities[Len(results) + 1], Len(results') = Len(results) + 1)]_vars

\* a call returned whose three facilities took their place ids from the
\* explicit property, the seed table and a fresh cache entry
C9_Witness ==
  /\ HasReturned
  /\ Len(outcome.value.facilities) = 3
  /\ Called(calls, "reviewStoreRead", <<"px">>)
  /\ Called(calls, "reviewStoreRead", <<"seed:b">>)
  /\ Called(calls, "reviewStoreRead", <<"old:", "c">>)
  /\ Called(calls, "placeStoreRead", <<"ccn:", "0", "1", "5", "0", "1", "1">>)
  /\ ~CalledAny(calls, "findPlace")

\* the providers of one geocoding run in the order they are to be tried, each
\* with whether it would yield coordinates
ProviderChain(args, env) ==
  (IF conf.googleKey
   THEN <<[svc |-> "google", query |-> fullAddressOf(args), yields |-> env.google = "ok"]>> ELSE <<>>)
    \o [i \in 1..Len(nominatimQueries(args)) |->
          [svc |-> "nominatim", query |-> nominatimQueries(args)[i], yields |-> env.nominatim[i] = "ok"]]
    \o <<[svc |-> "census", query |-> fullAddressOf(args), yields |-> env.census = "ok"]>>

\* the index of the first provider of the chain that yields, 0 for none
FirstYield(chain) ==
  IF \E i \in 1..Len(chain) : chain[i].yields
  THEN CHOOSE i \in 1..Len(chain) : chain[i].yields /\ \A j \in 1..(i - 1) : ~chain[j].yields
  ELSE 0

CallsOfChain(chain, k) == [i \in 1..k |-> [svc |-> chain[i].svc, query |-> chain[i].query]]

InOrderFirstWins(key, chain, k) ==
  IF k = 0
  THEN /\ outcome'.kind = "threw"
       /\ outcome'.error = "GeocodingFailed"
       /\ calls' = CallsOfChain(chain, Len(chain))
       /\ geocodeCache' = geocodeCache
  ELSE /\ outcome'.kind = "returned"
       /\ outcome'.value.provider = JStr(<<chain[k].svc>>)
       /\ calls' = CallsOfChain(chain, k)
       /\ DOMAIN geocodeCache' = (DOMAIN geocodeCache) \cup {key}
       /\ geocodeCache'[key] = outcome'.value
       /\ \A other \in DOMAIN geocodeCache : geocodeCache'[other] = geocodeCache[other]

GeocodeMiss == pc = "idle" /\ pc' = "done" /\ req'.op = "geocodeHospitalAddress"
                 /\ normalizeKey(geocodeArgsOf(hospitals[req'.hospital])) \notin DOMAIN geocodeCache

\* C6: on a cache miss the providers are called in the order mapping provider
\* (when configured), open geocoding service query by query, census geocoder,
\* up to the first that yields coordinates; exactly that result is stored
\* under the cache key and returned; when none yields, the call fails with
\* the geocoding-failed error and stores nothing.
C6_InOrderFirstWins ==
  [][GeocodeMiss =>
       InOrderFirstWins(normalizeKey(geocodeArgsOf(hospitals[req'.hospital])),
                        ProviderChain(geocodeArgsOf(hospitals[req'.hospital]), req'.env),
                        FirstYield(ProviderChain(geocodeArgsOf(hospitals[req'.hospital]), req'.env)))]_vars

\* C7: on a cache miss geocodeHospitalAddress does not fail when some provider
\* of the chain would yield coordinates, whatever the providers before it do.
C7_FailsOnlyWhenAllFail ==
  [][(GeocodeMiss /\ FirstYield(ProviderChain(geocodeArgsOf(hospitals[req'.hospital]), req'.env)) # 0) =>
       outcome'.kind = "returned"]_vars

\* a step that is a call of getPlaceId for a facility without a seed entry,
\* with the API key configured
PlaceCallStep ==
  /\ pc = "idle" /\ steps' = steps + 1 /\ now' = now /\ req'.op = "getPlaceId"
  /\ conf.apiKey
  /\ ~Truthy(SeedPlaceId(snfs[req'.facility]))

\* the entry cache.get yields for a facility: the memory layer's, else the
\* table's when the read answers, else none
YieldedPlaceEntry(f, env) ==
  LET key == <<"ccn:">> \o PaddedCcn(f)
  IN IF key \in DOMAIN placeMem THEN placeMem[key]
     ELSE IF env.read = "ok" /\ key \in DOMAIN placeStore THEN placeStore[key]
     ELSE JNull

YoungerThanWindow(entry) ==
  /\ entry # JNull
  /\ entry.resolved_at.t = "num"
  /\ now - entry.resolved_at.v < PLACE_MAX_AGE_DAYS * DAY_MS

FreshnessDecides(entry) ==
  /\ (entry # JNull /\ ~YoungerThanWindow(entry)) => CalledAny(calls', "findPlace")
  /\ YoungerThanWindow(entry) =>
       /\ outcome' = Returned(Spread(entry, [source |-> JStr(<<"cache">>)]))
       /\ ~CalledAny(calls', "findPlace")
  /\ CalledAny(calls', "findPlace") => ~YoungerThanWindow(entry)

\* C8: getPlaceId for a facility without seed entry, API key configured,
\* 30-day window: a cache entry that is 30 days old or older (31 days, say)
\* leads to a live find-place call; one younger than 30 days (1 day, say) is
\* returned with source "cache" and without a live call; a live call is made
\* only when the cache gives no entry or one not younger than the window.
C8_FreshnessDecides ==
  [][PlaceCallStep => FreshnessDecides(YieldedPlaceEntry(snfs[req'.facility], req'.env))]_vars

\* a call returned an entry resolved one day earlier from the cache, and made
\* no live call
C8_Witness ==
  /\ req.op = "getPlaceId"
  /\ conf.apiKey
  /\ outcome.kind = "returned"
  /\ outcome.value # JNull
  /\ Get(outcome.value, "source") = JStr(<<"cache">>)
  /\ now - outcome.value.resolved_at.v = 1 * DAY_MS
  /\ ~CalledAny(calls, "findPlace")

\* the snapshot the review cache holds for a place id, memory before the table
ReviewEntry(placeId) ==
  IF placeId \in DOMAIN reviewMem THEN reviewMem[placeId]
  ELSE IF placeId \in DOMAIN reviewStore
       THEN [reviewStore[placeId].snapshot EXCEPT !.fetched_at = reviewStore[placeId].fetched_at]
  ELSE JNull

\* the snapshot cache.get yields for a place id: the memory layer's, else the
\* table's when the read answers, else none
YieldedSnapshot(placeId, env) ==
  IF placeId \in DOMAIN reviewMem THEN reviewMem[placeId]
  ELSE IF env.read = "ok" THEN ReviewEntry(placeId)
  ELSE JNull

WithinWindow(snapshot) ==
  /\ snapshot # JNull
  /\ now - snapshot.fetched_at.v < REVIEWS_MAX_AGE_DAYS * DAY_MS

\* a step that is a call of getReviewSnapshot with a place id
ReviewCallStep ==
  /\ pc = "idle" /\ steps' = steps + 1 /\ now' = now /\ req'.op = "getReviewSnapshot"
  /\ req'.placeId # <<>>

SnapshotPolicy(placeId, env, cached) ==
  /\ WithinWindow(cached) =>
       /\ outcome' = Returned(cached)
       /\ ~CalledAny(calls', "placeDetails")
  /\ (~WithinWindow(cached) /\ conf.apiKey) =>
       /\ Called(calls', "placeDetails", placeId)
       /\ env.details = "ok" =>
            /\ outcome'.kind = "returned"
            /\ outcome'.value # JNull
            /\ outcome'.value.google_place_id = JStr(placeId)
            /\ outcome'.value.fetched_at = JNum(now)
            /\ placeId \in DOMAIN reviewStore'
            /\ reviewStore'[placeId].snapshot = outcome'.value
       /\ env.details = "throws" => outcome' = Returned(cached)
  /\ (~WithinWindow(cached) /\ ~conf.apiKey) =>
       /\ outcome' = Returned(cached)
       /\ ~CalledAny(calls', "placeDetails")

\* C10: getReviewSnapshot with a place id: a cached snapshot younger than the
\* window is returned without a live fetch; otherwise, with an API key, a live
\* fetch is made and, when it succeeds, the new snapshot is stored and
\* returned; without API key, or when the fetch fails, the stale snapshot is
\* returned if there is one and null otherwise, and the call does not throw.
C10_SnapshotPolicy ==
  [][ReviewCallStep =>
       SnapshotPolicy(req'.placeId, req'.env, YieldedSnapshot(req'.placeId, req'.env))]_vars

\* the same policy, for the calls in which the store answers its read and its
\* write
SnapshotPolicyWhenStoreAnswers ==
  [][(ReviewCallStep /\ req'.env.read = "ok" /\ req'.env.write = "ok") =>
       SnapshotPolicy(req'.placeId, req'.env, YieldedSnapshot(req'.placeId, req'.env))]_vars

\* a step that is a call of getPlaceId for a facility without a seed entry
UnseededPlaceCall ==
  /\ pc = "idle" /\ steps' = steps + 1 /\ now' = now /\ req'.op = "getPlaceId"
  /\ ~Truthy(SeedPlaceId(snfs[req'.facility]))

\* no live result can be had: no API key, or the find-place call throws or
\* finds no candidate
NoLiveResult(env) == ~conf.apiKey \/ env.find \in {"throws", "none"}

StaleOrNull(entry, env) ==
  (~YoungerThanWindow(entry) /\ NoLiveResult(env)) =>
    /\ outcome' = Returned(entry)
    /\ ~conf.apiKey => ~CalledAny(calls', "findPlace")

\* C11: when the cache gives no entry or a stale one and no live result can
\* be had, getPlaceId returns the stale entry if there is one and null
\* otherwise, never throws, and without API key makes no live call.
C11_StaleOrNull ==
  [][UnseededPlaceCall => StaleOrNull(YieldedPlaceEntry(snfs[req'.facility], req'.env), req'.env)]_vars

\* the same fallback, for the calls in which the store answers its read
StaleOrNullWhenStoreAnswers ==
  [][(UnseededPlaceCall /\ req'.env.read = "ok") =>
       StaleOrNull(YieldedPlaceEntry(snfs[req'.facility], req'.env), req'.env)]_vars

\* a finished rendering of a metric cell
MetricResolved == pc = "done" /\ req.op = "resolveMetricValue"

ResolvedCurrent == currentValueOf(req.facility, req.metric)

\* C12: when the facility holds a non-null value under the current key of the
\* metric, resolveMetricValue returns that value with source "current",
\* whatever the timeline holds.
C12_CurrentWins ==
  (MetricResolved /\ req.metric.currentKey # <<>> /\ ~IsNullish(ResolvedCurrent)) =>
    /\ outcome.value.source = JStr(<<"current">>)
    /\ outcome.value.value = ResolvedCurrent

\* a current value of 12 was returned although the latest year holds 14
C12_Witness ==
  /\ MetricResolved
  /\ ResolvedCurrent = JNum(12)
  /\ DOMAIN historyOf(req.facility) = {2022, 2024}
  /\ yearValue(historyOf(req.facility), 2024, req.metric) = JNum(14)
  /\ outcome.value.source = JStr(<<"current">>)
  /\ outcome.value.value = JNum(12)

EarliestYear == CHOOSE y \in DOMAIN historyOf(req.facility) : \A z \in DOMAIN historyOf(req.facility) : y <= z
LatestYear == CHOOSE y \in DOMAIN historyOf(req.facility) : \A z \in DOMAIN historyOf(req.facility) : y >= z
EarliestMetric == yearValue(historyOf(req.facility), EarliestYear, req.metric)
LatestMetric == yearValue(historyOf(req.facility), LatestYear, req.metric)

\* no current value, at least two years, the first and the last holding the metric
HistoricalWithTrend ==
  /\ MetricResolved
  /\ IsNullish(ResolvedCurrent)
  /\ Cardinality(DOMAIN historyOf(req.facility)) >= 2
  /\ ~IsNullish(EarliestMetric)
  /\ ~IsNullish(LatestMetric)

\* C13: with no current value and a timeline of two or more years whose
\* first and last year hold the metric, resolveMetricValue returns the last
\* year's value with source "historical", a trend whose delta is the last
\* value minus the first, and good exactly when (delta > 0) equals
\* higherIsBetter.
C13_HistoricalTrend ==
  HistoricalWithTrend =>
    /\ outcome.value.value = LatestMetric
    /\ outcome.value.source = JStr(<<"historical">>)
    /\ outcome.value.trend # JNull
    /\ outcome.value.trend.delta = JNum(LatestMetric.v - EarliestMetric.v)
    /\ outcome.value.trend.good = ((LatestMetric.v - EarliestMetric.v > 0) = req.metric.higherIsBetter)

\* {2022: 10, 2024: 14} under a higher-is-better metric gave 14, delta 4, good
C13_Witness ==
  /\ HistoricalWithTrend
  /\ req.metric.higherIsBetter
  /\ DOMAIN historyOf(req.facility) = {2022, 2024}
  /\ EarliestMetric = JNum(10)
  /\ LatestMetric = JNum(14)
  /\ outcome.value.value = JNum(14)
  /\ outcome.value.trend.delta = JNum(4)
  /\ outcome.value.trend.good

\* the tasks whose upstream fetch for a place id is under way
FetchesInFlight(placeId) == {t \in DOMAIN tasks : tasks[t].pc = "fetching" /\ tasks[t].placeId = placeId}

\* C14: for every key, at most one upstream fetch is under way at any time.
C14_OneFetchPerKey ==
  \A t \in DOMAIN tasks : Cardinality(FetchesInFlight(tasks[t].placeId)) <= 1

\* C15: the sort echoed by the View endpoint names the key and the order
\* performAnalysis applied to the returned list.
C15_ViewEchoesAppliedSort ==
  (pc = "responded" /\ outcome.status = 200) =>
    outcome.value.sort = [by |-> JStr(ResolvedSortBy(req.options)), order |-> JStr(ResolvedOrder(req.options))]

\* C16: no step of a performAnalysis call changes the hospital records or the
\* facility records loaded at boot.
C16_RecordsUntouched == [][hospitals' = hospitals /\ snfs' = snfs]_vars

\* a facility lies within the radius when it has coordinates and its distance
\* from the hospital is not above radiusMiles
LiesWithinRadius(f) ==
  /\ Get(f, "latitude").t = "num"
  /\ Get(f, "longitude").t = "num"
  /\ LessEq(haversine([lat |-> hLat, lon |-> hLon], [lat |-> Get(f, "latitude"), lon |-> Get(f, "longitude")]),
            RequestedRadius)

EnrichmentServices ==
  {"cms", "placeStoreRead", "findPlace", "placeStoreWrite", "reviewStoreRead", "placeDetails", "reviewStoreWrite"}

\* a finished call for a matched hospital with coordinates
FinishedLocated == Finished /\ hIdx # 0 /\ hLat.t = "num" /\ hLon.t = "num"

EmptyResult ==
  /\ HasReturned
  /\ outcome.value.facilities = <<>>
  /\ outcome.value.totalWithinRadius = 0
  /\ \A i \in 1..Len(calls) : calls[i].svc \notin EnrichmentServices

\* C17: for a matched hospital with coordinates and a facility set of which no
\* facility lies within radiusMiles, performAnalysis returns facilities = []
\* and totalWithinRadius = 0, without error and without enrichment call.
C17_EmptyWhenNoneWithin ==
  (FinishedLocated /\ \A i \in 1..Len(snfs) : ~LiesWithinRadius(snfs[i])) => EmptyResult

\* the same, for facility sets in which every facility has coordinates
EmptyWhenAllLocatedOutside ==
  (FinishedLocated /\ \A i \in 1..Len(snfs) :
     /\ Get(snfs[i], "latitude").t = "num" /\ Get(snfs[i], "longitude").t = "num"
     /\ ~LiesWithinRadius(snfs[i])) => EmptyResult

\* C18: in every returned list the facility at position i (counted from 1)
\* has Local_Rank = i, whatever the facility record or the live quality
\* metrics hold.
C18_LocalRankIsPosition ==
  HasReturned =>
    \A i \in 1..Len(outcome.value.facilities) : outcome.value.facilities[i]["Local_Rank"] = JNum(i)

\* a returned list of two or more facilities holds, at a position other than
\* 9, the facility whose record carries a Local_Rank of 9
C18_Witness ==
  /\ HasReturned
  /\ Len(outcome.value.facilities) >= 2
  /\ \E i \in 1..Len(outcome.value.facilities), j \in 1..Len(snfs) :
       /\ Get(snfs[j], "Local_Rank") = JNum(9)
       /\ outcome.value.facilities[i]["facility_name"] = snfs[j]["facility_name"]
       /\ outcome.value.facilities[i]["Local_Rank"] = JNum(i)

SortKeys == {<<"rating">>, <<"composite">>, <<"distance">>, <<"name">>}

SortOrders == {<<"asc">>, <<"desc">>}

\* the key the request asks for: its sortBy when that names one of the four
\* keys, and without a sortBy the key of its mode
AsksForKey(options, by) ==
  LET sortBy == Get(options, "sortBy")
      mode == Get(options, "mode")
  IN /\ (sortBy.t = "str" /\ toLowerCase(sortBy.s) \in SortKeys) => by = toLowerCase(sortBy.s)
     /\ (~Truthy(sortBy) /\ mode = JStr(<<"best">>)) => by = <<"composite">>
     /\ (~Truthy(sortBy) /\ mode \in {JUndef, JStr(<<"closest">>)}) => by = <<"distance">>

\* the order the request asks for under key by: without a valid order,
\* ascending for distance and descending for every other key
AsksForOrder(options, by, ord) ==
  LET order == Get(options, "order")
      valid == order.t = "str" /\ toLowerCase(order.s) \in SortOrders
  IN /\ valid => ord = toLowerCase(order.s)
     /\ ~valid => ord = (IF by = <<"distance">> THEN <<"asc">> ELSE <<"desc">>)

\* C19: the facilities handed to enrichment are those within the radius,
\* sorted by the explicit sortBy if there is one (whatever the mode), else by
\* distance for mode closest or absent and by composite for mode best, and,
\* without a valid order, ascending for distance and descending otherwise.
C19_SortResolution ==
  pc = "enrich" =>
    \E by \in SortKeys, ord \in SortOrders :
      /\ AsksForKey(req.options, by)
      /\ AsksForOrder(req.options, by, ord)
      /\ topFacilities = TopFacilities(sortFacilities(withDistance, by, ord), req.options)

\* mode best with an explicit sortBy of distance and an order that is neither
\* asc nor desc: the nearest facility comes first although another has the
\* higher composite score
C19_Witness ==
  /\ pc = "enrich"
  /\ Get(req.options, "mode") = JStr(<<"best">>)
  /\ Get(req.options, "sortBy") = JStr(<<"distance">>)
  /\ Get(req.options, "order") = JStr(<<"u", "p">>)
  /\ Len(topFacilities) >= 2
  /\ topFacilities[1]["distance"].v < topFacilities[2]["distance"].v
  /\ topFacilities[1]["Composite_Score"].v < topFacilities[2]["Composite_Score"].v

\* facility_name is null, undefined or empty
NameMissing(f) == ~Truthy(Get(f, "facility_name"))

SortedByName == HasReturned /\ ResolvedSortBy(req.options) = <<"name">>

\* no facility without a name stands before a facility with one
NamelessLast(list) ==
  \A i, j \in 1..Len(list) : i < j => ~(NameMissing(list[i]) /\ ~NameMissing(list[j]))

\* the named facilities follow the order of their lower-cased names
NamedInOrder(list, ord) ==
  \A i, j \in 1..Len(list) :
    (i < j /\ ~NameMissing(list[i]) /\ ~NameMissing(list[j])) =>
      LET first == toLowerCase(list[i]["facility_name"].s)
          second == toLowerCase(list[j]["facility_name"].s)
      IN IF ord = <<"asc">> THEN localeCompare(first, second) <= 0
         ELSE localeCompare(first, second) >= 0

\* C20: in a list returned for a sort by name, ascending or descending, every
\* facility without a facility_name comes after every facility with one, and
\* the facilities with names are in case-insensitive order.
C20_NamelessAfterNamed ==
  SortedByName =>
    /\ NamelessLast(outcome.value.facilities)
    /\ NamedInOrder(outcome.value.facilities, ResolvedOrder(req.options))

\* what does hold of a sort by name: the named facilities are in
\* case-insensitive order, and in descending order the nameless come last
NamedOrderedAndNamelessLastDescending ==
  SortedByName =>
    /\ NamedInOrder(outcome.value.facilities, ResolvedOrder(req.options))
    /\ ResolvedOrder(req.options) = <<"desc">> => NamelessLast(outcome.value.facilities)

\* a descending sort by name returned a nameless facility behind named ones
\* that differ in case
NamelessReturnedDescending ==
  /\ SortedByName
  /\ ResolvedOrder(req.options) = <<"desc">>
  /\ Len(outcome.value.facilities) >= 3
  /\ NameMissing(outcome.value.facilities[Len(outcome.value.facilities)])
  /\ outcome.value.facilities[1]["facility_name"].s # toLowerCase(outcome.value.facilities[1]["facility_name"].s)

\* latitude and longitude are both numbers (not null, undefined or NaN)
HasCoordinates(f) == Get(f, "latitude").t = "num" /\ Get(f, "longitude").t = "num"

\* C21: no facility whose latitude or longitude is absent appears in the
\* returned list or is counted in totalWithinRadius, for every radiusMiles
\* and hospital position.
C21_UnlocatedDiscarded ==
  HasReturned =>
    /\ \A i \in 1..Len(outcome.value.facilities) : HasCoordinates(outcome.value.facilities[i])
    /\ outcome.value.totalWithinRadius <= Cardinality({j \in 1..Len(snfs) : HasCoordinates(snfs[j])})

LiveMetricKeys ==
  {"Mobility at Discharge", "Discharge to Community Rate", "Fall with Major Injury Rate",
   "Healthcare-Associated Infection Rate"}

\* the loaded record a returned facility was made from
LoadedRecordOf(f) == snfs[CHOOSE j \in 1..Len(snfs) : snfs[j]["CCN"] = f["CCN"]]

\* a field of the loaded record has its loaded value in the returned facility,
\* unless a live metric that was delivered took its place
KeptOrLive(f, k) ==
  \/ f[k] = LoadedRecordOf(f)[k]
  \/ k \in LiveMetricKeys /\ f[k].t = "num"

\* C22: a failed live quality fetch adds nothing to the merge: every field of
\* the loaded facility record, also one named like a live metric, has its
\* loaded value in the returned facility unless the fetch delivered that
\* metric.
C22_FailedFetchKeepsFields ==
  HasReturned =>
    \A i \in 1..Len(outcome.value.facilities) :
      \A k \in DOMAIN LoadedRecordOf(outcome.value.facilities[i]) :
        KeptOrLive(outcome.value.facilities[i], k)

\* the fields that are not named like a live metric do keep their values
OtherFieldsKept ==
  HasReturned =>
    \A i \in 1..Len(outcome.value.facilities) :
      \A k \in DOMAIN LoadedRecordOf(outcome.value.facilities[i]) \ LiveMetricKeys :
        outcome.value.facilities[i][k] = LoadedRecordOf(outcome.value.facilities[i])[k]

\* a facility loaded with a mobility value was returned with the live one
LiveMobilityMerged ==
  /\ HasReturned
  /\ \E i \in 1..Len(outcome.value.facilities) :
       /\ Get(LoadedRecordOf(outcome.value.facilities[i]), "Mobility at Discharge") = JNum(64)
       /\ outcome.value.facilities[i]["Mobility at Discharge"] = JNum(LiveMobility)

\* the matched hospital record holds numeric latitude and longitude, from the
\* loader or from the geocoding of an earlier request
HospitalHasCoordinates ==
  Get(hospitals[hIdx], "latitude").t = "num" /\ Get(hospitals[hIdx], "longitude").t = "num"

\* C23: performAnalysis hands a hospital to geocodeHospitalAddress only when
\* the record lacks coordinates: never a record the loader produced with
\* numeric latitude and longitude, nor one an earlier request geocoded.
C23_GeocodesOnlyUnlocated == pc = "geocode" => ~HospitalHasCoordinates

\* what the code does: every request that matches a hospital goes on to
\* geocodeHospitalAddress
EveryMatchGeocodes ==
  [][(pc = "idle" /\ pc' # "idle" /\ req'.op = "performAnalysis" /\ pc' # "done") => pc' = "geocode"]_vars

\* the place ids under which reviews of a facility can be asked for: the one
\* it is known by, the one a live lookup finds, the one stored for its key
PlaceIdsOf(f) ==
  LET known == knownPlaceId(f, GooglePlaceIds)
      stored == readCacheRecord(PlaceStoreAged(1), keyForFacility(f))
  IN {LivePlaceOf(f).place_id.s}
       \cup (IF Truthy(known) THEN {known.s} ELSE {})
       \cup (IF stored # JNull THEN {stored.place_id.s} ELSE {})

\* a collaborator call belongs to the enrichment of facility f
CallIsFor(call, f) ==
  CASE call.svc = "cms" -> call.query = String(facilityCcn(f))
    [] call.svc \in {"placeStoreRead", "placeStoreWrite"} -> call.query = keyForFacility(f)
    [] call.svc = "findPlace" -> call.query = buildQuery(f).s
    [] call.svc \in {"reviewStoreRead", "placeDetails", "reviewStoreWrite"} -> call.query \in PlaceIdsOf(f)
    [] OTHER -> FALSE

\* the enrichment calls made so far, in the order they were made
EnrichmentCalls == SelectSeq(calls, LAMBDA c : c.svc \in EnrichmentServices)

\* every turn of the loop starts with the quality fetch: the turn a call
\* belongs to is the number of quality fetches up to it
TurnOf(p) == Cardinality({q \in 1..p : EnrichmentCalls[q].svc = "cms"})

\* the first limit (default 5) facilities of the ranking
FirstRanked ==
  LET ranked == sortFacilities(withDistance, ResolvedSortBy(req.options), ResolvedOrder(req.options))
      limit == OptionOr(req.options, "limit", JNum(DEFAULT_LIMIT)).v
  IN SubSeq(ranked, 1, IF limit < Len(ranked) THEN limit ELSE Len(ranked))

\* C24: every enrichment call is made for one of the first limit ranked
\* facilities; the calls come in blocks, one block per facility in rank order,
\* so no call for rank i+1 precedes a call for rank i; and a returned list
\* holds exactly the facilities that were enriched.
C24_EnrichedInRankOrder ==
  /\ \A p \in 1..Len(EnrichmentCalls) :
       /\ TurnOf(p) \in 1..Len(FirstRanked)
       /\ CallIsFor(EnrichmentCalls[p], FirstRanked[TurnOf(p)])
  /\ HasReturned =>
       /\ Len(outcome.value.facilities) = Len(FirstRanked)
       /\ TurnOf(Len(EnrichmentCalls)) = Len(FirstRanked)
       /\ \A i \in 1..Len(FirstRanked) : outcome.value.facilities[i]["CCN"] = FirstRanked[i]["CCN"]

\* three facilities lie within the radius and the limit is 2: two were
\* enriched and returned, each with resolver or review calls behind its
\* quality fetch
C24_Witness ==
  /\ HasReturned
  /\ Len(withDistance) = 3
  /\ Len(outcome.value.facilities) = 2
  /\ \E p, q \in 1..Len(EnrichmentCalls) :
       /\ TurnOf(p) = 1 /\ EnrichmentCalls[p].svc = "placeDetails"
       /\ TurnOf(q) = 2 /\ EnrichmentCalls[q].svc # "cms"

\* the years of the timeline that hold the metric
YearsWithMetric ==
  {y \in DOMAIN historyOf(req.facility) : ~IsNullish(yearValue(historyOf(req.facility), y, req.metric))}

LatestYearWithMetric == CHOOSE y \in YearsWithMetric : \A z \in YearsWithMetric : y >= z
EarliestYearWithMetric == CHOOSE y \in YearsWithMetric : \A z \in YearsWithMetric : y <= z

\* C25: without a current value, resolveMetricValue returns the metric of the
\* latest year that holds it, with source "historical", also when a later
\* year of the timeline lacks the metric; the source is none only when no
\* year holds it.
C25_LatestYearWithMetric ==
  (MetricResolved /\ IsNullish(ResolvedCurrent)) =>
    IF YearsWithMetric = {}
    THEN outcome.value.source = JNull
    ELSE /\ outcome.value.value = yearValue(historyOf(req.facility), LatestYearWithMetric, req.metric)
         /\ outcome.value.source = JStr(<<"historical">>)

\* what the code does: the fallback is the metric of the last year of the
\* whole timeline, and there is none when that year lacks the metric
FallbackFromLastYearOnly ==
  (MetricResolved /\ IsNullish(ResolvedCurrent)) =>
    IF DOMAIN historyOf(req.facility) = {} \/ IsNullish(LatestMetric)
    THEN outcome.value.source = JNull /\ IsNullish(outcome.value.value)
    ELSE outcome.value.value = LatestMetric /\ outcome.value.source = JStr(<<"historical">>)

\* C26: resolveMetricValue returns a trend exactly when the metric is present
\* in two or more years of the timeline, computed between the earliest and
\* the latest of those years; years holding only other metrics do not count.
C26_TrendPerMetric ==
  MetricResolved =>
    IF Cardinality(YearsWithMetric) >= 2
    THEN /\ outcome.value.trend # JNull
         /\ outcome.value.trend.delta =
              JNum(yearValue(historyOf(req.facility), LatestYearWithMetric, req.metric).v
                   - yearValue(historyOf(req.facility), EarliestYearWithMetric, req.metric).v)
         /\ outcome.value.trend.yearSpan =
              JStr(DigitsOf(EarliestYearWithMetric) \o <<"->">> \o DigitsOf(LatestYearWithMetric))
    ELSE outcome.value.trend = JNull

\* what the code does: a trend exactly when the timeline has two or more
\* years and its first and its last year both hold the metric
TrendFromTimelineEnds ==
  MetricResolved =>
    (outcome.value.trend # JNull) <=>
      /\ Cardinality(DOMAIN historyOf(req.facility)) >= 2
      /\ ~IsNullish(EarliestMetric)
      /\ ~IsNullish(LatestMetric)

TimelinesLoaded == pc = "done" /\ req.op = "loadHistoricalSNFQuality"

\* the rows of all extracts of a year that score metrics
MetricRowsOf(year) == req.extracts[year].mds \o req.extracts[year].claims \o req.extracts[year].qrp

\* a row whose CCN field holds a CCN: not absent and not empty
RowHasCcn(row) == ~IsNullish(Get(row, "ccn")) /\ trim(String(Get(row, "ccn"))) # <<>>

\* C27: a row of a yearly extract whose CCN is absent or empty is dropped:
\* every timeline, and every year of it, comes from a row of that year that
\* holds a CCN which pads to the key of the timeline, so no timeline is keyed
\* by padding only.
C27_CcnlessRowsDropped ==
  TimelinesLoaded =>
    \A ccn \in DOMAIN outcome.value :
      \A year \in DOMAIN outcome.value[ccn].years :
        \E i \in 1..Len(MetricRowsOf(year)) :
          /\ RowHasCcn(MetricRowsOf(year)[i])
          /\ padStart(trim(String(Get(MetricRowsOf(year)[i], "ccn"))), 6, "0") = ccn

\* rows with a CCN are joined under the padded CCN: 15010 and 015010 make
\* one timeline with both years
PaddedRowsJoined ==
  /\ TimelinesLoaded
  /\ DOMAIN outcome.value = {Digits015010}
  /\ DOMAIN outcome.value[Digits015010].years = {2023, 2024}

\* a call that returned coordinates
GeocodeSucceeded(task) == task.pc = "returned"

SameGeocodeKey(a, b) == a.hospital # 0 /\ b.hospital # 0 /\ geocodeKeyOf(a) = geocodeKeyOf(b)

\* calls for one key that succeeded returned the same coordinates
SameCoordinatesPerKey ==
  \A t, u \in DOMAIN tasks :
    (GeocodeSucceeded(tasks[t]) /\ GeocodeSucceeded(tasks[u]) /\ SameGeocodeKey(tasks[t], tasks[u])) =>
      tasks[t].value.lat = tasks[u].value.lat /\ tasks[t].value.lon = tasks[u].value.lon

\* a call that began after a call for its key had succeeded asked no provider
NoProviderCallOnceResolved ==
  \A t, u \in DOMAIN tasks :
    (GeocodeSucceeded(tasks[u]) /\ SameGeocodeKey(tasks[t], tasks[u]) /\ tasks[t].began > tasks[u].ended) =>
      tasks[t].asked = 0

\* a persisted row keeps its coordinates
PersistedEntryKept ==
  \A key \in DOMAIN geocodeCache :
    /\ key \in DOMAIN geocodeCache'
    /\ geocodeCache'[key].lat = geocodeCache[key].lat
    /\ geocodeCache'[key].lon = geocodeCache[key].lon

\* C28: once a geocodeHospitalAddress call for a key has succeeded, every
\* later or concurrent call for that key returns the same coordinates, the
\* persisted entry of the key is never replaced by a different result, and a
\* later call makes no provider call.
C28_GeocodeImmutable ==
  /\ [](SameCoordinatesPerKey /\ NoProviderCallOnceResolved)
  /\ [][PersistedEntryKept]_vars

\* what does hold: a call that begins after a call for its key has succeeded
\* is answered from the persisted entry, with the same coordinates and
\* without provider call
LaterCallsAnswered ==
  \A t, u \in DOMAIN tasks :
    (GeocodeSucceeded(tasks[t]) /\ GeocodeSucceeded(tasks[u]) /\ SameGeocodeKey(tasks[t], tasks[u])
       /\ tasks[t].began > tasks[u].ended) =>
      /\ tasks[t].asked = 0
      /\ tasks[t].value.lat = geocodeCache[geocodeKeyOf(tasks[t])].lat
      /\ tasks[t].value.lon = geocodeCache[geocodeKeyOf(tasks[t])].lon

\* two calls for one key overlapped and both succeeded
OverlappingCallsSucceeded ==
  \E t, u \in DOMAIN tasks :
    /\ t # u
    /\ GeocodeSucceeded(tasks[t]) /\ GeocodeSucceeded(tasks[u]) /\ SameGeocodeKey(tasks[t], tasks[u])
    /\ tasks[t].began < tasks[u].ended /\ tasks[u].began < tasks[t].ended
    /\ tasks[t].asked > 0 /\ tasks[u].asked > 0

\* the entry a cache yields for a key: the memory layer first, then the store
PlaceEntryOf(mem, store, key) == IF key \in DOMAIN mem THEN mem[key] ELSE readCacheRecord(store, key)
ReviewEntryOf(mem, store, placeId) == IF placeId \in DOMAIN mem THEN mem[placeId] ELSE readSnapshot(store, placeId)

\* a getPlaceId call whose find-place request threw or found no candidate
FindFailedStep ==
  /\ pc = "idle" /\ steps' = steps + 1 /\ req'.op = "getPlaceId"
  /\ req'.env.find \in {"none", "throws"}
  /\ \E i \in 1..Len(calls') : calls'[i].svc = "findPlace"

\* a getReviewSnapshot call whose place-details request threw
DetailsFailedStep ==
  /\ pc = "idle" /\ steps' = steps + 1 /\ req'.op = "getReviewSnapshot"
  /\ req'.env.details = "throws"
  /\ \E i \in 1..Len(calls') : calls'[i].svc = "placeDetails"

\* the memory layer lost and changed nothing, and gained nothing but the copy
\* of the persistent row that the cache read before the lookup put there
PlaceMemoryAsRead ==
  /\ \A k \in DOMAIN placeMem : k \in DOMAIN placeMem' /\ placeMem'[k] = placeMem[k]
  /\ \A k \in DOMAIN placeMem' \ DOMAIN placeMem : placeMem'[k] = readCacheRecord(placeStore, k)

ReviewMemoryAsRead ==
  /\ \A k \in DOMAIN reviewMem : k \in DOMAIN reviewMem' /\ reviewMem'[k] = reviewMem[k]
  /\ \A k \in DOMAIN reviewMem' \ DOMAIN reviewMem : reviewMem'[k] = readSnapshot(reviewStore, k)

\* C29: a live lookup that does not succeed writes nothing: the persistent
\* store is as before, no memory entry is modified or removed (the only new
\* one is the copy of the persistent row the cache read made), and the entry
\* the cache yields for the key, stale or not, is the same afterwards.
C29_FailedLookupKeepsCache ==
  [][/\ FindFailedStep =>
          /\ placeStore' = placeStore
          /\ PlaceMemoryAsRead
          /\ PlaceEntryOf(placeMem', placeStore', keyForFacility(snfs[req'.facility]))
               = PlaceEntryOf(placeMem, placeStore, keyForFacility(snfs[req'.facility]))
     /\ DetailsFailedStep =>
          /\ reviewStore' = reviewStore
          /\ ReviewMemoryAsRead
          /\ ReviewEntryOf(reviewMem', reviewStore', req'.placeId)
               = ReviewEntryOf(reviewMem, reviewStore, req'.placeId)]_vars

\* the statement without the exception for the cache read: on a failed
\* lookup both layers of the cache are exactly as before the call
C29_CacheUntouched ==
  [][/\ FindFailedStep => (placeStore' = placeStore /\ placeMem' = placeMem)
     /\ DetailsFailedStep => (reviewStore' = reviewStore /\ reviewMem' = reviewMem)]_vars

\* a place lookup found no candidate and a details request threw, each with a
\* stale entry for its key that is still held, with its timestamp
C29_Witness ==
  /\ pc = "idle"
  /\ \E i \in 1..Len(calls) : calls[i].svc = "placeDetails"
  /\ req.op = "getReviewSnapshot" /\ req.env.details = "throws"
  /\ outcome.kind = "returned" /\ outcome.value # JNull
  /\ ReviewEntryOf(reviewMem, reviewStore, req.placeId) = outcome.value
  /\ now - outcome.value.fetched_at.v >= REVIEWS_MAX_AGE_DAYS * DAY_MS
  /\ keyForFacility(snfs[3]) \in DOMAIN placeMem
  /\ placeMem[keyForFacility(snfs[3])] = readCacheRecord(placeStore, keyForFacility(snfs[3]))
  /\ now - placeMem[keyForFacility(snfs[3])].resolved_at.v >= PLACE_MAX_AGE_DAYS * DAY_MS

\* every key of the memory layers has a persistent row with the same payload
\* and timestamp
PlaceMemoryMirrorsStore == \A k \in DOMAIN placeMem : readCacheRecord(placeStore, k) = placeMem[k]
ReviewMemoryMirrorsStore == \A k \in DOMAIN reviewMem : readSnapshot(reviewStore, k) = reviewMem[k]

\* C30: in every reachable state of the place-id cache and of the review
\* cache, each key held in memory has a persistent entry with the same
\* payload and timestamp, also after a set whose persistent write fails.
C30_MemoryMirrorsStore == PlaceMemoryMirrorsStore /\ ReviewMemoryMirrorsStore

\* what does hold: a call none of whose persistent writes fails keeps the two
\* layers alike
MirrorKeptWhenWritesSucceed ==
  [][(C30_MemoryMirrorsStore /\ steps' = steps + 1 /\ req'.op \in {"getPlaceId", "getReviewSnapshot"}
        /\ req'.env.write = "ok") => C30_MemoryMirrorsStore']_vars

====
